---- MODULE Spec2Model ----
(***************************************************************************)
(* Spectre: the InvisibleTransfer escrow contract                          *)
(* (src/contracts/InvisibleTransfer.sol) together with the ERC20 tokens it *)
(* calls.  One action per external function of the contract; the calls the *)
(* contract makes into a token are part of the action when the token is    *)
(* the plain MockERC20 of the test-suite, and are separate steps of a call *)
(* stack when the token is one that calls back into the contract from its  *)
(* transfer / transferFrom.                                                *)
(***************************************************************************)
EXTENDS Integers, Sequences, FiniteSets, TLC

----------------------------------------------------------------------------
(* Addresses.                                                              *)

ZERO  == "0x0"      \* address(0)
THIS  == "this"     \* address(this): the InvisibleTransfer contract
OWNER == "owner"    \* msg.sender of the constructor
ALICE == "alice"    \* an ordinary account (test: alice)
BOB   == "bob"      \* an ordinary account (test: bob)
TOKEN == "token"    \* a MockERC20: moves balances and returns
EVIL  == "evil"     \* an ERC20 that may call the contract back before it
                    \* moves balances, and may return false

\* msg.sender of a contract call is never address(0) and never the contract
\* itself (the contract makes no call to itself).
Callers   == {OWNER, ALICE, BOB, EVIL}
Addresses == {ZERO, THIS, OWNER, ALICE, BOB, EVIL}
Tokens    == {TOKEN, EVIL}
Hashes    == {"h1", "h2"}

\* Program constants.
SEVEN_DAYS   == 604800      \* "7 days", in seconds
BASIS_POINTS == 10000       \* the divisor of the fee
MAX_FEE      == 500         \* "Max 5%" of updatePlatformFee

\* constructor(_platformFee): the deploy script and the tests pass 50; the
\* constructor itself accepts any uint256 (10000 is 100%).
ConstructorArgs == {50, 10000}

\* Bounds of the model.
InitialBalance == 600  \* minted to each holder of a token before the start
MaxDepth  == 2         \* contract calls in progress, one inside the other
MaxBlocks == 2         \* blocks mined after deployment
MaxEvents == 2         \* a FeeUpdated is logged only below this log length
MaxSymbols == 3        \* a token is added only below this length of tokenSymbols
MaxSwaps == 3          \* invisible swaps the hook records
MaxWrapped == 200      \* a user wraps a symbol only while they deposited less of it
MaxListeners == 3      \* connect is called only below this number of listeners

----------------------------------------------------------------------------
VARIABLES
    hiddenTransfers,        \* mapping(bytes32 => HiddenTransfer)
    userSentTransfers,      \* mapping(address => bytes32[])
    userReceivedTransfers,  \* mapping(address => bytes32[])
    owner,
    totalTransfers,
    totalClaimed,
    platformFee,
    feeCollector,
    events,                 \* the contract's event log, in emission order
    balanceOf,              \* per token: balanceOf[account]
    allowance,              \* per token: allowance[account][address(this)]
    now,                    \* block.timestamp
    blockNumber,            \* block.number
    stack,                  \* contract calls in progress, outermost first
    lastCall,               \* the call that returned last: function,
                            \* msg.sender and arguments
    lastResult,             \* what it returned: "ok" or the revert reason
    index,                  \* the backend's record of each identifier
    notified,               \* positions of the log whose TransferClaimed
                            \* event was reported to the backend
    mismatches,             \* claims the backend refused: wrong claimer
    observed,               \* events of the log delivered to the listeners
    response,               \* the backend's answer to the last request
                            \* made to it outside a flow of the wallet
    sending,                \* the wallet's run of handleSendTransaction
    claiming,               \* the wallet's run of claimTransaction
    supportedTokens,        \* TokenWrapper: mapping(string => TokenInfo)
    tokenSymbols,           \* TokenWrapper: string[]
    wrapperOwner,           \* TokenWrapper: owner
    wrapperBalance,         \* per token: balanceOf[address(TokenWrapper)]
    wrapperAllowance,       \* per token: allowance[account][TokenWrapper]
    deposited,              \* per user and symbol: the sum of the amounts
                            \* of the user's wrapTokens calls that succeeded
    withdrawn,              \* the same for unwrapTokens
    swapMetadata,           \* InvisibleTransferHook: mapping(bytes32 =>
                            \* SwapMetadata), the entries written so far
    hookEvents,             \* the hook's InvisibleSwapExecuted events
    provider,               \* WalletManager.provider
    signer,                 \* WalletManager.signer
    userAddress,            \* WalletManager.userAddress
    isConnected,            \* WalletManager.isConnected
    connecting,             \* the runs of WalletManager.connect
    network,                \* WalletManager.network
    listeners               \* accountsChanged listeners registered on
                            \* window.ethereum

ledger == <<hiddenTransfers, userSentTransfers, userReceivedTransfers,
            totalTransfers, totalClaimed, platformFee, feeCollector, events,
            balanceOf, allowance>>
offLedger == <<index, notified, mismatches, observed, response>>
client == <<sending, claiming>>
wrapperTokens == <<wrapperBalance, wrapperAllowance, deposited, withdrawn>>
wrapper == <<supportedTokens, tokenSymbols, wrapperOwner, wrapperTokens>>
hook == <<swapMetadata, hookEvents>>
walletManager == <<provider, signer, userAddress, network, isConnected,
                   connecting, listeners>>
vars == <<ledger, owner, wrapper, hook, walletManager, now, blockNumber, stack,
          lastCall, lastResult, offLedger, client>>

\* Everything a revert rolls back.
World ==
    [hiddenTransfers |-> hiddenTransfers,
     userSentTransfers |-> userSentTransfers,
     userReceivedTransfers |-> userReceivedTransfers,
     totalTransfers |-> totalTransfers,
     totalClaimed |-> totalClaimed,
     platformFee |-> platformFee,
     feeCollector |-> feeCollector,
     events |-> events,
     balanceOf |-> balanceOf,
     allowance |-> allowance]

Commit(w) ==
    /\ hiddenTransfers' = w.hiddenTransfers
    /\ userSentTransfers' = w.userSentTransfers
    /\ userReceivedTransfers' = w.userReceivedTransfers
    /\ totalTransfers' = w.totalTransfers
    /\ totalClaimed' = w.totalClaimed
    /\ platformFee' = w.platformFee
    /\ feeCollector' = w.feeCollector
    /\ events' = w.events
    /\ balanceOf' = w.balanceOf
    /\ allowance' = w.allowance

\* The value of a mapping entry that was never written.
NoTransfer ==
    [sender |-> ZERO, token |-> ZERO, amount |-> 0, timestamp |-> 0,
     claimed |-> FALSE]

----------------------------------------------------------------------------
(* The token: MockERC20.transfer and MockERC20.transferFrom.               *)

Move(bal, from, to, amount) ==
    LET debited == [bal EXCEPT ![from] = @ - amount]
    IN  [debited EXCEPT ![to] = @ + amount]

\* token.transfer(to, amount) with msg.sender = from
transfer(w, token, from, to, amount) ==
    IF w.balanceOf[token][from] < amount
    THEN [ok |-> FALSE, err |-> "Insufficient balance", w |-> w]
    ELSE [ok |-> TRUE, err |-> "ok",
          w |-> [w EXCEPT !.balanceOf[token] = Move(@, from, to, amount)]]

\* token.transferFrom(from, to, amount) with msg.sender = address(this)
transferFrom(w, token, from, to, amount) ==
    IF w.balanceOf[token][from] < amount
    THEN [ok |-> FALSE, err |-> "Insufficient balance", w |-> w]
    ELSE IF w.allowance[token][from] < amount
    THEN [ok |-> FALSE, err |-> "Insufficient allowance", w |-> w]
    ELSE [ok |-> TRUE, err |-> "ok",
          w |-> [w EXCEPT !.balanceOf[token] = Move(@, from, to, amount),
                          !.allowance[token][from] = @ - amount]]

----------------------------------------------------------------------------
(* The contract.  A call in progress is a frame: the function, the         *)
(* external call it is waiting in (pc), its msg.sender and locals, and the *)
(* world at its entry, which a revert restores.                            *)

\* A fee that is rounded up instead of down.
FeeRoundedUp(w, _amount) ==
    (_amount * w.platformFee + BASIS_POINTS - 1) \div BASIS_POINTS

\* fee of publishHiddenTransfer (amountAfterFee is _amount - fee)
Fee(w, _amount) == (_amount * w.platformFee) \div BASIS_POINTS

\* A publishHiddenTransfer whose existence check lets a settled identifier
\* be published again.
publishRequiresReusingSettled(w, _hash, _token, _amount) ==
    IF ~(_amount > 0) THEN "Amount must be positive"
    ELSE IF w.hiddenTransfers[_hash].timestamp # 0
            /\ ~w.hiddenTransfers[_hash].claimed THEN "Hash already exists"
    ELSE IF _token = ZERO THEN "Invalid token address"
    ELSE IF Fee(w, _amount) > _amount THEN "Panic: arithmetic underflow"
    ELSE "ok"

\* A publishHiddenTransfer that accepts the amount 0.
publishRequiresAcceptingZero(w, _hash, _token, _amount) ==
    IF w.hiddenTransfers[_hash].timestamp # 0 THEN "Hash already exists"
    ELSE IF _token = ZERO THEN "Invalid token address"
    ELSE IF Fee(w, _amount) > _amount THEN "Panic: arithmetic underflow"
    ELSE "ok"

\* The requires of publishHiddenTransfer, in order, and the checked
\* subtraction _amount - fee: "ok" or the revert reason.
publishRequires(w, _hash, _token, _amount) ==
    IF ~(_amount > 0) THEN "Amount must be positive"
    ELSE IF w.hiddenTransfers[_hash].timestamp # 0 THEN "Hash already exists"
    ELSE IF _token = ZERO THEN "Invalid token address"
    ELSE IF Fee(w, _amount) > _amount THEN "Panic: arithmetic underflow"
    ELSE "ok"

\* A publishHiddenTransfer that files the identifier in the received list
\* of the recipient the backend knows.
publishRecordListingRecipient(w, f) ==
    [w EXCEPT
        !.hiddenTransfers[f.hash] =
            [sender |-> f.sender, token |-> f.token,
             amount |-> f.amount - f.fee, timestamp |-> now,
             claimed |-> FALSE],
        !.userSentTransfers[f.sender] = Append(@, f.hash),
        !.userReceivedTransfers[index[f.hash].recipient] = Append(@, f.hash),
        !.totalTransfers = @ + 1,
        !.events = Append(@, [name |-> "TransferPublished", hash |-> f.hash,
                              sender |-> f.sender, token |-> f.token,
                              amount |-> f.amount - f.fee])]

\* A publishHiddenTransfer whose event carries the gross amount.
publishRecordGrossEvent(w, f) ==
    [w EXCEPT
        !.hiddenTransfers[f.hash] =
            [sender |-> f.sender, token |-> f.token,
             amount |-> f.amount - f.fee, timestamp |-> now,
             claimed |-> FALSE],
        !.userSentTransfers[f.sender] = Append(@, f.hash),
        !.totalTransfers = @ + 1,
        !.events = Append(@, [name |-> "TransferPublished", hash |-> f.hash,
                              sender |-> f.sender, token |-> f.token,
                              amount |-> f.amount])]

\* A publishHiddenTransfer that records the gross amount although the fee
\* has left the contract.
publishRecordGrossAmount(w, f) ==
    [w EXCEPT
        !.hiddenTransfers[f.hash] =
            [sender |-> f.sender, token |-> f.token,
             amount |-> f.amount, timestamp |-> now,
             claimed |-> FALSE],
        !.userSentTransfers[f.sender] = Append(@, f.hash),
        !.totalTransfers = @ + 1,
        !.events = Append(@, [name |-> "TransferPublished", hash |-> f.hash,
                              sender |-> f.sender, token |-> f.token,
                              amount |-> f.amount - f.fee])]

\* publishHiddenTransfer after its token calls: the record, the sent list,
\* the counter and the event.
publishRecord(w, f) ==
    [w EXCEPT
        !.hiddenTransfers[f.hash] =
            [sender |-> f.sender, token |-> f.token,
             amount |-> f.amount - f.fee, timestamp |-> now,
             claimed |-> FALSE],
        !.userSentTransfers[f.sender] = Append(@, f.hash),
        !.totalTransfers = @ + 1,
        !.events = Append(@, [name |-> "TransferPublished", hash |-> f.hash,
                              sender |-> f.sender, token |-> f.token,
                              amount |-> f.amount - f.fee])]

\* A claimHiddenTransfer that looks at the amount before the timestamp.
claimRequiresAmountFirst(w, _hash) ==
    LET t == w.hiddenTransfers[_hash]
    IN  IF ~(t.amount > 0) THEN "No amount to claim"
        ELSE IF ~(t.timestamp > 0) THEN "Transfer does not exist"
        ELSE IF t.claimed THEN "Already claimed"
        ELSE "ok"

\* The requires of claimHiddenTransfer, in order.
claimRequires(w, _hash) ==
    LET t == w.hiddenTransfers[_hash]
    IN  IF ~(t.timestamp > 0) THEN "Transfer does not exist"
        ELSE IF t.claimed THEN "Already claimed"
        ELSE IF ~(t.amount > 0) THEN "No amount to claim"
        ELSE "ok"

\* A claimHiddenTransfer that does not set the claimed flag.
claimEffectsWithoutFlag(w, sender, _hash) ==
    [w EXCEPT
        !.totalClaimed = @ + 1,
        !.userReceivedTransfers[sender] = Append(@, _hash)]

\* claimHiddenTransfer before its token call: the flag, the counter and the
\* received list.
claimEffects(w, sender, _hash) ==
    [w EXCEPT
        !.hiddenTransfers[_hash].claimed = TRUE,
        !.totalClaimed = @ + 1,
        !.userReceivedTransfers[sender] = Append(@, _hash)]

\* A cancelHiddenTransfer whose window is open only after 7 days, not at
\* 7 days.
cancelRequiresStrictlyLater(w, sender, _hash) ==
    LET t == w.hiddenTransfers[_hash]
    IN  IF t.sender # sender THEN "Not the sender"
        ELSE IF t.claimed THEN "Already claimed"
        ELSE IF ~(now > t.timestamp + SEVEN_DAYS) THEN "Too early to cancel"
        ELSE "ok"

\* A cancelHiddenTransfer that looks at the claimed flag before the sender.
cancelRequiresClaimedFirst(w, sender, _hash) ==
    LET t == w.hiddenTransfers[_hash]
    IN  IF t.claimed THEN "Already claimed"
        ELSE IF t.sender # sender THEN "Not the sender"
        ELSE IF ~(now >= t.timestamp + SEVEN_DAYS) THEN "Too early to cancel"
        ELSE "ok"

\* The requires of cancelHiddenTransfer, in order.
cancelRequires(w, sender, _hash) ==
    LET t == w.hiddenTransfers[_hash]
    IN  IF t.sender # sender THEN "Not the sender"
        ELSE IF t.claimed THEN "Already claimed"
        ELSE IF ~(now >= t.timestamp + SEVEN_DAYS) THEN "Too early to cancel"
        ELSE "ok"

\* cancelHiddenTransfer before its token call: the flag.
cancelEffects(w, _hash) ==
    [w EXCEPT !.hiddenTransfers[_hash].claimed = TRUE]

\* The token call a frame is waiting in, on a token that moves balances.
ExternalCall(w, f) ==
    CASE f.pc = "transferFrom" ->
            transferFrom(w, f.token, f.sender, THIS, f.amount)
      [] f.pc = "feeTransfer" ->
            transfer(w, f.token, THIS, w.feeCollector, f.fee)
      [] f.pc = "payout" ->
            transfer(w, f.token, THIS, f.sender, f.amount)
      [] f.pc = "withdraw" ->
            transfer(w, f.token, THIS, owner, f.amount)

\* The reason of the require around the token call, when the token
\* returns false.
RequireMessage(f) ==
    CASE f.pc = "transferFrom" -> "Token transfer failed"
      [] f.pc = "feeTransfer" -> "Fee transfer failed"
      [] f.pc = "payout" /\ f.fn = "claim" -> "Claim transfer failed"
      [] f.pc = "payout" /\ f.fn = "cancel" -> "Cancel transfer failed"
      [] f.pc = "withdraw" -> "Emergency withdrawal failed"

\* The code of the function after the token call at f.pc returned true, up
\* to its next token call (done = FALSE, f the frame waiting there) or to
\* its end (done = TRUE).
AfterCall(w, f) ==
    CASE f.fn = "publish" /\ f.pc = "transferFrom" /\ f.fee > 0 ->
            [done |-> FALSE, w |-> w, f |-> [f EXCEPT !.pc = "feeTransfer"]]
      [] f.fn = "publish" /\ ~(f.pc = "transferFrom" /\ f.fee > 0) ->
            [done |-> TRUE, w |-> publishRecord(w, f), f |-> f]
      [] f.fn = "claim" ->
            [done |-> TRUE, f |-> f,
             w |-> [w EXCEPT !.events =
                      Append(@, [name |-> "TransferClaimed", hash |-> f.hash,
                                 recipient |-> f.sender,
                                 amount |-> w.hiddenTransfers[f.hash].amount])]]
      [] f.fn = "cancel" ->
            [done |-> TRUE, f |-> f,
             w |-> [w EXCEPT !.events =
                      Append(@, [name |-> "TransferCancelled",
                                 hash |-> f.hash, sender |-> f.sender])]]
      [] f.fn = "emergencyWithdraw" ->
            [done |-> TRUE, f |-> f, w |-> w]

\* Runs frame f from world w: through its token calls while the token is
\* one that moves balances and returns, until the function ends ("done"),
\* reverts ("reverted") or waits in a call of a token that may call back
\* ("paused").
RECURSIVE Run(_, _)
Run(w, f) ==
    IF f.token = EVIL
    THEN [status |-> "paused", w |-> w, f |-> f, err |-> "ok"]
    ELSE LET r == ExternalCall(w, f)
         IN  IF ~r.ok
             THEN [status |-> "reverted", w |-> w, f |-> f, err |-> r.err]
             ELSE LET a == AfterCall(r.w, f)
                  IN  IF a.done
                      THEN [status |-> "done", w |-> a.w, f |-> f,
                            err |-> "ok"]
                      ELSE Run(a.w, a.f)

Top == stack[Len(stack)]
Pop == SubSeq(stack, 1, Len(stack) - 1)

\* Who may call the contract now: any account when no call is in progress;
\* the token that the innermost call waits in, otherwise.
CanCall(sender) ==
    \/ stack = <<>>
    \/ stack # <<>> /\ sender = EVIL /\ Len(stack) < MaxDepth

\* A call: the function, msg.sender, and the bytes32, address and uint256
\* arguments it takes ("" / ZERO / 0 for those it does not take).
CallOf(fn, sender, _hash, _address, _amount) ==
    [fn |-> fn, sender |-> sender, hash |-> _hash, address |-> _address,
     amount |-> _amount]

\* The wallet's flows are suspended in `await tx.wait()` while their
\* transaction is pending; when the ledger has executed it they hold its
\* outcome, which tx.wait() then delivers (a receipt, or the revert).
\* flow.trace lists the requests of the flow that were answered or executed
\* so far, each with the identifier it carried.
Mined(flow, fn, call, result) ==
    IF flow.pc = fn /\ call.fn = fn /\ call.sender = flow.wallet
                    /\ call.hash = flow.hash
    THEN [flow EXCEPT !.pc = "wait", !.result = result,
                      !.trace = Append(@, [op |-> fn, hash |-> call.hash])]
    ELSE flow

Resume(call, result) ==
    /\ sending' = Mined(sending, "publish", call, result)
    /\ claiming' = Mined(claiming, "claim", call, result)

\* The call reverts with reason err: nothing it did remains.
Revert(call, err) ==
    /\ lastCall' = call
    /\ lastResult' = err
    /\ Resume(call, err)
    /\ UNCHANGED <<ledger, owner, wrapper, hook, walletManager, now, blockNumber, offLedger, stack>>

\* The call passed its requires; w is the world after the effects that
\* precede its first token call, f the frame waiting in that call.
Call(w, f) ==
    LET r == Run(w, f)
    IN  /\ UNCHANGED <<owner, wrapper, hook, walletManager, now, blockNumber, offLedger>>
        /\ CASE r.status = "paused" ->
                    /\ Commit(r.w)
                    /\ stack' = Append(stack, r.f)
                    /\ UNCHANGED <<lastCall, lastResult, client>>
             [] r.status = "reverted" ->
                    /\ lastCall' = f.call
                    /\ lastResult' = r.err
                    /\ Resume(f.call, r.err)
                    /\ UNCHANGED <<ledger, stack>>
             [] r.status = "done" ->
                    /\ Commit(r.w)
                    /\ lastCall' = f.call
                    /\ lastResult' = "ok"
                    /\ Resume(f.call, "ok")
                    /\ UNCHANGED stack

\* The frame of call `call` waiting in the token call pc, which is made to
\* _token and moves _amount (fee: the fee local of publishHiddenTransfer).
Frame(call, pc, _token, _amount, fee) ==
    [fn |-> call.fn, pc |-> pc, sender |-> call.sender, hash |-> call.hash,
     token |-> _token, amount |-> _amount, fee |-> fee, call |-> call,
     snap |-> World]

publishHiddenTransfer(sender, _hash, _token, _amount) ==
    /\ CanCall(sender)
    /\ LET err == publishRequires(World, _hash, _token, _amount)
           call == CallOf("publish", sender, _hash, _token, _amount)
       IN  IF err # "ok"
           THEN Revert(call, err)
           ELSE Call(World, Frame(call, "transferFrom", _token, _amount,
                                  Fee(World, _amount)))

claimHiddenTransfer(sender, _hash) ==
    /\ CanCall(sender)
    /\ LET err == claimRequires(World, _hash)
           call == CallOf("claim", sender, _hash, ZERO, 0)
           t == hiddenTransfers[_hash]
       IN  IF err # "ok"
           THEN Revert(call, err)
           ELSE Call(claimEffects(World, sender, _hash),
                     Frame(call, "payout", t.token, t.amount, 0))

cancelHiddenTransfer(sender, _hash) ==
    /\ CanCall(sender)
    /\ LET err == cancelRequires(World, sender, _hash)
           call == CallOf("cancel", sender, _hash, ZERO, 0)
           t == hiddenTransfers[_hash]
       IN  IF err # "ok"
           THEN Revert(call, err)
           ELSE Call(cancelEffects(World, _hash),
                     Frame(call, "payout", t.token, t.amount, 0))

\* The token of the innermost call moves the balances and returns true; the
\* function goes on to its next token call or to its end.
TokenReturns ==
    /\ stack # <<>>
    /\ LET r == ExternalCall(World, Top)
       IN  /\ r.ok
           /\ LET a == AfterCall(r.w, Top)
              IN  /\ Commit(a.w)
                  /\ IF a.done
                     THEN /\ stack' = Pop
                          /\ lastCall' = Top.call
                          /\ lastResult' = "ok"
                          /\ Resume(Top.call, "ok")
                     ELSE /\ stack' = [stack EXCEPT ![Len(stack)] = a.f]
                          /\ UNCHANGED <<lastCall, lastResult, client>>
    /\ UNCHANGED <<owner, wrapper, hook, walletManager, now, blockNumber, offLedger>>

\* The token of the innermost call returns false: the require around the
\* call reverts the function, and the world is the one at its entry.
TokenFails ==
    /\ stack # <<>>
    /\ Commit(Top.snap)
    /\ stack' = Pop
    /\ lastCall' = Top.call
    /\ lastResult' = RequireMessage(Top)
    /\ Resume(Top.call, RequireMessage(Top))
    /\ UNCHANGED <<owner, wrapper, hook, walletManager, now, blockNumber, offLedger>>

\* modifier onlyOwner and the require of updatePlatformFee
updatePlatformFeeRequires(sender, _newFee) ==
    IF sender # owner THEN "Not owner"
    ELSE IF ~(_newFee <= MAX_FEE) THEN "Fee too high"
    ELSE "ok"

updatePlatformFee(sender, _newFee) ==
    /\ CanCall(sender)
    /\ LET err == updatePlatformFeeRequires(sender, _newFee)
           call == CallOf("updatePlatformFee", sender, "", ZERO, _newFee)
       IN  IF err # "ok"
           THEN Revert(call, err)
           ELSE /\ Len(events) < MaxEvents
                /\ lastCall' = call
                /\ platformFee' = _newFee
                /\ events' = Append(events, [name |-> "FeeUpdated",
                                             newFee |-> _newFee])
                /\ lastResult' = "ok"
                /\ UNCHANGED <<hiddenTransfers, userSentTransfers,
                               userReceivedTransfers, totalTransfers,
                               totalClaimed, feeCollector, balanceOf,
                               allowance, owner, wrapper, hook, walletManager, now, blockNumber, offLedger, stack,
                               client>>

\* An updateFeeCollector without the onlyOwner modifier.
updateFeeCollectorRequiresAnyone(sender, _newCollector) ==
    IF _newCollector = ZERO THEN "Invalid address" ELSE "ok"

\* modifier onlyOwner and the require of updateFeeCollector
updateFeeCollectorRequires(sender, _newCollector) ==
    IF sender # owner THEN "Not owner"
    ELSE IF _newCollector = ZERO THEN "Invalid address"
    ELSE "ok"

updateFeeCollector(sender, _newCollector) ==
    /\ CanCall(sender)
    /\ LET err == updateFeeCollectorRequires(sender, _newCollector)
           call == CallOf("updateFeeCollector", sender, "", _newCollector, 0)
       IN  IF err # "ok"
           THEN Revert(call, err)
           ELSE /\ feeCollector' = _newCollector
                /\ lastCall' = call
                /\ lastResult' = "ok"
                /\ UNCHANGED <<hiddenTransfers, userSentTransfers,
                               userReceivedTransfers, totalTransfers,
                               totalClaimed, platformFee, events, balanceOf,
                               allowance, owner, wrapper, hook, walletManager, now, blockNumber, offLedger, stack,
                               client>>

\* emergencyWithdraw: onlyOwner, then token.transfer(owner, _amount).  A call
\* to an address that holds no code reverts.
emergencyWithdraw(sender, _token, _amount) ==
    /\ CanCall(sender)
    /\ LET call == CallOf("emergencyWithdraw", sender, "", _token, _amount)
       IN  IF sender # owner THEN Revert(call, "Not owner")
           ELSE IF _token \notin Tokens
                THEN Revert(call, "call to non-contract")
                ELSE Call(World, Frame(call, "withdraw", _token, _amount, 0))

\* A block is mined d seconds after the last one.
AdvanceTime(d) ==
    /\ stack = <<>>
    /\ blockNumber < MaxBlocks
    /\ now' = now + d
    /\ blockNumber' = blockNumber + 1
    /\ UNCHANGED <<ledger, owner, wrapper, hook, walletManager, stack,
                   lastCall, lastResult, offLedger,
                   client>>

----------------------------------------------------------------------------
\* The backend's record of an identifier it has not generated.
NoIndexRecord == [status |-> "none", sender |-> ZERO, recipient |-> ZERO]

\* Index.recordPending: the record of a new identifier, pending.
recordPending(idx, h, sender, recipient) ==
    IF idx[h].status # "none"
    THEN [err |-> "DuplicateIdentifier", index |-> idx]
    ELSE [err |-> "ok",
          index |-> [idx EXCEPT ![h] = [status |-> "pending",
                                        sender |-> sender,
                                        recipient |-> recipient]]]

\* An Index that marks the record claimed for whoever reports the claim.
markClaimedTrustingClaimer(idx, h, claimer) ==
    IF idx[h].status # "pending"
    THEN [err |-> "NotFound", index |-> idx]
    ELSE [err |-> "ok", index |-> [idx EXCEPT ![h].status = "claimed"]]

\* An Index that accepts a claim of an identifier once and refuses it when
\* it is reported again.
markClaimedOnce(idx, h, claimer) ==
    IF idx[h].status # "pending"
    THEN [err |-> "NotFound", index |-> idx]
    ELSE IF idx[h].recipient # claimer
    THEN [err |-> "WrongClaimer", index |-> idx]
    ELSE [err |-> "ok", index |-> [idx EXCEPT ![h].status = "claimed"]]

\* Index.markClaimed: a no-op when repeated by the same claimer, refused
\* when no pending record exists or the claimer is not the recipient.
markClaimed(idx, h, claimer) ==
    IF idx[h].status = "claimed" /\ idx[h].recipient = claimer
    THEN [err |-> "ok", index |-> idx]
    ELSE IF idx[h].status # "pending"
    THEN [err |-> "NotFound", index |-> idx]
    ELSE IF idx[h].recipient # claimer
    THEN [err |-> "WrongClaimer", index |-> idx]
    ELSE [err |-> "ok", index |-> [idx EXCEPT ![h].status = "claimed"]]

\* The status codes of POST /api/claim-transaction.
HttpStatus(err) ==
    CASE err = "ok" -> 200
      [] err = "WrongClaimer" -> 403
      [] err = "NotFound" -> 400
      [] OTHER -> 500

\* found: the status of the record when the request arrived.
NoResponse ==
    [op |-> "", hash |-> "", claimer |-> ZERO, err |-> "", status |-> 0,
     found |-> ""]

\* apiClient.claimTransaction(hash, claimer) called by any client: the
\* endpoint asks no authentication and no proof of the ledger claim.
postClaimTransaction(h, claimer) ==
    /\ LET r == markClaimed(index, h, claimer)
       IN  /\ index' = r.index
           /\ response' = [op |-> "claim-transaction", hash |-> h,
                           claimer |-> claimer, err |-> r.err,
                           status |-> HttpStatus(r.err),
                           found |-> index[h].status]
    /\ UNCHANGED <<ledger, owner, wrapper, hook, walletManager, now, blockNumber, stack, lastCall,
                   lastResult, notified, mismatches, observed, client>>

\* handleSendTransaction, step 1: the backend generates an identifier no
\* one has used and records it as pending for the recipient.
generateHash(sender, recipient, h) ==
    /\ stack = <<>>
    /\ hiddenTransfers[h].timestamp = 0
    /\ LET r == recordPending(index, h, sender, recipient)
       IN  r.err = "ok" /\ index' = r.index
    /\ UNCHANGED <<ledger, owner, wrapper, hook, walletManager, now, blockNumber, stack, lastCall,
                   lastResult, notified, mismatches, observed, response,
                   client>>

\* claimTransaction after tx.wait(): the client whose claim the ledger
\* confirmed (event i of the log) reports it to the backend, which marks
\* the identifier claimed or refuses the claimer.
claimNotification(i) ==
    /\ stack = <<>>
    /\ events[i].name = "TransferClaimed"
    /\ i \notin notified
    /\ LET r == markClaimed(index, events[i].hash, events[i].recipient)
       IN  /\ index' = r.index
           /\ mismatches' =
                IF r.err = "WrongClaimer"
                THEN mismatches \cup {[hash |-> events[i].hash,
                                       claimer |-> events[i].recipient]}
                ELSE mismatches
    /\ notified' = notified \cup {i}
    /\ UNCHANGED <<ledger, owner, wrapper, hook, walletManager, now, blockNumber, stack, lastCall,
                   lastResult, observed, response, client>>

\* listenToContractEvents: the next event of the log is delivered.  The
\* handlers of TransferPublished and TransferClaimed show a message and
\* reload what is displayed; no handler is registered for any other event.
onContractEvent ==
    /\ stack = <<>>
    /\ observed < Len(events)
    /\ observed' = observed + 1
    /\ UNCHANGED <<ledger, owner, wrapper, hook, walletManager, now, blockNumber, stack, lastCall,
                   lastResult, index, notified, mismatches, response,
                   client>>

----------------------------------------------------------------------------
(* The wallet's client (app.js, api.js, wallet.js).  A text typed into the  *)
(* form is a sequence of characters.                                        *)

NULL == "null"          \* JavaScript null
MALFORMED == "0x12"     \* a recipient text that is not an address

\* api.js: the token table of the client; the Sepolia USDC is the plain
\* token of the model.
TOKEN_ADDRESSES == [USDC |-> TOKEN]
TOKEN_DECIMALS  == [USDC |-> 6]

getTokenAddress(symbol) ==
    IF symbol \in DOMAIN TOKEN_ADDRESSES THEN TOKEN_ADDRESSES[symbol] ELSE NULL

getTokenDecimals(symbol) ==
    IF symbol \in DOMAIN TOKEN_DECIMALS THEN TOKEN_DECIMALS[symbol] ELSE 18

\* wallet.js isValidAddress: ethers.utils.isAddress
isValidAddress(address) == address \in Addresses

DigitChars == <<"0", "1", "2", "3", "4", "5", "6", "7", "8", "9">>
IsDigit(c) == \E i \in 1..10 : DigitChars[i] = c
DigitValue(c) == (CHOOSE i \in 1..10 : DigitChars[i] = c) - 1

RECURSIVE Pow10(_)
Pow10(n) == IF n = 0 THEN 1 ELSE 10 * Pow10(n - 1)

\* How many digits s has from position i on.
RECURSIVE DigitsFrom(_, _)
DigitsFrom(s, i) ==
    IF i <= Len(s) /\ IsDigit(s[i]) THEN 1 + DigitsFrom(s, i + 1) ELSE 0

\* The number written by the n digits of s from position i on.
RECURSIVE Number(_, _, _)
Number(s, i, n) ==
    IF n = 0 THEN 0 ELSE 10 * Number(s, i, n - 1) + DigitValue(s[i + n - 1])

\* n less the zeros that end the n digits of s from position i on.
RECURSIVE Stripped(_, _, _)
Stripped(s, i, n) ==
    IF n > 0 /\ s[i + n - 1] = "0" THEN Stripped(s, i, n - 1) ELSE n

\* The numeric literal s starts with: sign, whole digits, point, fraction
\* digits, and the position after its last character.
Literal(s) ==
    LET signed == Len(s) >= 1 /\ s[1] \in {"-", "+"}
        i0 == IF signed THEN 2 ELSE 1
        ni == DigitsFrom(s, i0)
        dot == i0 + ni <= Len(s) /\ s[i0 + ni] = "."
        nf == IF dot THEN DigitsFrom(s, i0 + ni + 1) ELSE 0
    IN  [sign |-> IF signed THEN s[1] ELSE "", whole |-> i0, ni |-> ni,
         fraction |-> i0 + ni + 1, nf |-> nf,
         end |-> IF dot /\ ni + nf > 0 THEN i0 + ni + 1 + nf ELSE i0 + ni]

\* JavaScript parseFloat: the value of the longest numeric prefix, NaN when
\* there is none.  Values are held in millionths (six fraction digits).
NaN == [nan |-> TRUE, micro |-> 0]
parseFloat(s) ==
    LET l == Literal(s)
        n == IF l.nf > 6 THEN 6 ELSE l.nf
        v == Number(s, l.whole, l.ni) * Pow10(6)
             + Number(s, l.fraction, n) * Pow10(6 - n)
    IN  IF l.ni + l.nf = 0 THEN NaN
        ELSE [nan |-> FALSE, micro |-> IF l.sign = "-" THEN 0 - v ELSE v]

\* x <= 0 in JavaScript: false for NaN.
LessOrEqualZero(x) == ~x.nan /\ x.micro <= 0

\* ethers.utils.parseUnits: the whole text must be -?digits[.digits] with no
\* more significant fraction digits than the token has decimals; it throws
\* otherwise.
parseUnits(s, decimals) ==
    LET l == Literal(s)
        n == Stripped(s, l.fraction, l.nf)
        v == Number(s, l.whole, l.ni) * Pow10(decimals)
             + Number(s, l.fraction, n) * Pow10(decimals - n)
    IN  IF \/ l.sign = "+"
           \/ l.ni + l.nf = 0
           \/ l.end # Len(s) + 1
           \/ n > decimals
        THEN [ok |-> FALSE, wei |-> 0]
        ELSE [ok |-> TRUE, wei |-> IF l.sign = "-" THEN 0 - v ELSE v]

\* What the fields of the send form hold when it is submitted.
RecipientInputs == {BOB, MALFORMED}
AmountInputs ==
    { <<"0", ".", "0", "0", "0", "3">>,         \* 0.0003
      <<"0">>,
      <<"-", "1">>,
      <<"a", "b", "c">>,
      <<"0", ".", "0", "0", "0", "3", "x">> }   \* 0.0003x
TokenInputs == {"USDC", "DOGE"}

\* The Commitment Generator's checks of its inputs.
createIdentifierRequires(sender, recipient, amount, token) ==
    IF ~(sender \in Addresses /\ recipient \in Addresses)
    THEN "InvalidAddress"
    ELSE IF amount.nan \/ amount.micro <= 0 THEN "InvalidAmount"
    ELSE IF token \notin DOMAIN TOKEN_ADDRESSES THEN "UnsupportedToken"
    ELSE "ok"

\* A flow that is not running.
NoFlow ==
    [pc |-> "idle", wallet |-> ZERO, hash |-> "", result |-> "",
     cause |-> "", trace |-> <<>>]
NoSend ==
    [pc |-> "idle", wallet |-> ZERO, hash |-> "", result |-> "",
     cause |-> "", trace |-> <<>>, recipient |-> ZERO, amount |-> <<>>,
     token |-> "", approval |-> ""]
NoClaim == NoFlow

\* The flow ends in its catch block, which shows the error.
Caught(flow, cause) == [flow EXCEPT !.pc = "error", !.cause = cause]

\* handleSendTransaction up to its first await: the fields are read and
\* validated, and the generate-hash request is sent.
handleSendTransaction(wallet, recipient, amount, tokenSymbol) ==
    /\ sending.pc \in {"idle", "done", "error"}
    /\ isConnected
    /\ LET s == [NoSend EXCEPT !.wallet = wallet, !.recipient = recipient,
                               !.amount = amount, !.token = tokenSymbol]
       IN  sending' =
             IF ~isValidAddress(recipient) THEN Caught(s, "validation")
             ELSE IF LessOrEqualZero(parseFloat(amount))
                  THEN Caught(s, "validation")
                  ELSE [s EXCEPT !.pc = "generate"]
    /\ UNCHANGED <<ledger, owner, wrapper, hook, walletManager, now, blockNumber, stack, lastCall,
                   lastResult, offLedger, claiming>>

\* A continuation that publishes without the approval step.
sendPrepareSkippingApproval(s, h) ==
    [s EXCEPT !.hash = h, !.pc = "publish",
              !.trace = <<[op |-> "generateHash", hash |-> h]>>]

\* The continuation of handleSendTransaction after generateHash returned
\* hashData: token address, decimals and amountInWei (steps 2 and 3).
sendPrepare(s, h) ==
    LET got == [s EXCEPT !.hash = h,
                         !.trace = <<[op |-> "generateHash", hash |-> h]>>]
    IN  IF getTokenAddress(s.token) = NULL THEN Caught(got, "local")
        ELSE IF ~parseUnits(s.amount, getTokenDecimals(s.token)).ok
             THEN Caught(got, "local")
             ELSE [got EXCEPT !.pc = "approve"]

\* The backend answers generate-hash: it refuses the inputs, or generates
\* identifier h and records it as pending; the flow goes on with steps 2, 3.
generateHashReturns(h) ==
    /\ sending.pc = "generate"
    /\ LET err == createIdentifierRequires(sending.wallet, sending.recipient,
                                           parseFloat(sending.amount),
                                           sending.token)
           r == recordPending(index, h, sending.wallet, sending.recipient)
       IN  IF err # "ok" \/ r.err # "ok"
           THEN /\ sending' = Caught(sending, "backend")
                /\ UNCHANGED index
           ELSE /\ index' = r.index
                /\ sending' = sendPrepare(sending, h)
    /\ UNCHANGED <<ledger, owner, wrapper, hook, walletManager, now, blockNumber, stack, lastCall,
                   lastResult, notified, mismatches, observed, response,
                   claiming>>

\* APIClient.request: fetch fails (the backend cannot be reached) and the
\* error is thrown to the caller.
generateHashFails ==
    /\ sending.pc = "generate"
    /\ sending' = Caught(sending, "unavailable")
    /\ UNCHANGED <<ledger, owner, wrapper, hook, walletManager, now, blockNumber, stack, lastCall,
                   lastResult, offLedger, claiming>>

\* The amount in the token's units that steps 3 and 4 compute.
amountInWei(s) == parseUnits(s.amount, getTokenDecimals(s.token)).wei

\* MockERC20.approve(spender, amount) with spender = address(this), sent by
\* the holder from outside the flow.
approve(sender, _token, _amount) ==
    /\ stack = <<>>
    /\ allowance[_token][sender] # _amount
    /\ allowance' = [allowance EXCEPT ![_token][sender] = _amount]
    /\ UNCHANGED <<hiddenTransfers, userSentTransfers, userReceivedTransfers,
                   totalTransfers, totalClaimed, platformFee, feeCollector,
                   events, balanceOf, owner, wrapper, hook, walletManager,
                   now, blockNumber, stack, lastCall, lastResult, offLedger,
                   client>>

\* An allowance test that is content with any allowance above zero.
allowanceSufficesWhenPositive(currentAllowance, _amountInWei) ==
    currentAllowance > 0

\* currentAllowance.gte(amountInWei)
allowanceSuffices(currentAllowance, _amountInWei) ==
    currentAllowance >= _amountInWei

\* WalletManager.checkAndApproveToken: throws when the wallet is not
\* connected; reads the allowance of userAddress, which throws without a
\* signer or an address; returns true when the allowance covers the
\* amount, and otherwise has the signer approve the contract for the amount,
\* waits for the receipt and returns true.
checkAndApproveToken ==
    /\ sending.pc = "approve"
    /\ LET t == getTokenAddress(sending.token)
           a == amountInWei(sending)
           returned(approval) ==
               [sending EXCEPT !.pc = "publish", !.approval = approval,
                               !.trace = Append(@, [op |-> "approve",
                                                    hash |-> ""])]
       IN  IF ~isConnected \/ signer = NULL \/ userAddress = NULL
           THEN /\ sending' = Caught(sending, "local")
                /\ UNCHANGED allowance
           ELSE IF allowanceSuffices(allowance[t][userAddress], a)
           THEN /\ sending' = returned("sufficient")
                /\ UNCHANGED allowance
           ELSE /\ allowance' = [allowance EXCEPT ![t][userAddress] = a]
                /\ sending' = returned("approved")
    /\ UNCHANGED <<hiddenTransfers, userSentTransfers, userReceivedTransfers,
                   totalTransfers, totalClaimed, platformFee, feeCollector,
                   events, balanceOf, owner, wrapper, hook, walletManager,
                   now, blockNumber, stack, lastCall, lastResult, offLedger,
                   claiming>>

\* The user refuses to sign the transaction of the current step, or it
\* cannot be broadcast: the call throws and nothing reaches the ledger.
sendRejected ==
    /\ sending.pc \in {"approve", "publish"}
    /\ sending' = Caught(sending, "rejected")
    /\ UNCHANGED <<ledger, owner, wrapper, hook, walletManager, now, blockNumber, stack, lastCall,
                   lastResult, offLedger, claiming>>

\* Step 5: contract.publishHiddenTransfer(hashData.hash, tokenAddress,
\* amountInWei) is signed, broadcast and executed by the ledger.
sendPublish ==
    /\ sending.pc = "publish"
    /\ publishHiddenTransfer(sending.wallet, sending.hash,
                             getTokenAddress(sending.token),
                             amountInWei(sending))

\* A tx.wait() that does not look at the status of the receipt.
WaitReturnsIgnoringStatus(flow, next) == [flow EXCEPT !.pc = next]

\* tx.wait() returns the receipt of a transaction that succeeded and throws
\* for one that reverted.
WaitReturns(flow, next) ==
    IF flow.result = "ok" THEN [flow EXCEPT !.pc = next]
    ELSE Caught(flow, "reverted")

sendWaitReturns ==
    /\ sending.pc = "wait"
    /\ sending' = WaitReturns(sending, "done")
    /\ UNCHANGED <<ledger, owner, wrapper, hook, walletManager, now, blockNumber, stack, lastCall,
                   lastResult, offLedger, claiming>>

\* tx.wait() throws although the ledger executed the transaction: the
\* provider is unreachable, or the wallet replaced the transaction.
sendWaitFails ==
    /\ sending.pc = "wait"
    /\ sending' = Caught(sending, "unavailable")
    /\ UNCHANGED <<ledger, owner, wrapper, hook, walletManager, now, blockNumber, stack, lastCall,
                   lastResult, offLedger, claiming>>

\* claimTransaction(hash) up to its first await.
claimTransaction(wallet, hash) ==
    /\ claiming.pc \in {"idle", "done", "error"}
    /\ claiming' = [NoClaim EXCEPT !.pc = "claim", !.wallet = wallet,
                                   !.hash = hash]
    /\ UNCHANGED <<ledger, owner, wrapper, hook, walletManager, now, blockNumber, stack, lastCall,
                   lastResult, offLedger, sending>>

\* contract.claimHiddenTransfer(hash) is signed, broadcast and executed.
claimMined ==
    /\ claiming.pc = "claim"
    /\ claimHiddenTransfer(claiming.wallet, claiming.hash)

claimRejected ==
    /\ claiming.pc = "claim"
    /\ claiming' = Caught(claiming, "rejected")
    /\ UNCHANGED <<ledger, owner, wrapper, hook, walletManager, now, blockNumber, stack, lastCall,
                   lastResult, offLedger, sending>>

\* A claim flow that notifies the backend whatever tx.wait() delivers.
claimAfterWaitUnconditional(flow) == [flow EXCEPT !.pc = "notify"]

\* After tx.wait(): a confirmed claim goes on to notify the backend.
claimAfterWait(flow) == WaitReturns(flow, "notify")

claimWaitReturns ==
    /\ claiming.pc = "wait"
    /\ claiming' = claimAfterWait(claiming)
    /\ UNCHANGED <<ledger, owner, wrapper, hook, walletManager, now, blockNumber, stack, lastCall,
                   lastResult, offLedger, sending>>

claimWaitFails ==
    /\ claiming.pc = "wait"
    /\ claiming' = Caught(claiming, "unavailable")
    /\ UNCHANGED <<ledger, owner, wrapper, hook, walletManager, now, blockNumber, stack, lastCall,
                   lastResult, offLedger, sending>>

\* apiClient.claimTransaction(hash, walletManager.userAddress): the backend
\* marks the identifier claimed or refuses; a refusal is thrown and caught.
claimNotify ==
    /\ claiming.pc = "notify"
    /\ LET r == markClaimed(index, claiming.hash, claiming.wallet)
       IN  /\ index' = r.index
           /\ mismatches' =
                IF r.err = "WrongClaimer"
                THEN mismatches \cup {[hash |-> claiming.hash,
                                       claimer |-> claiming.wallet]}
                ELSE mismatches
           /\ LET told == [claiming EXCEPT
                              !.trace = Append(@, [op |-> "notify",
                                                   hash |-> claiming.hash])]
              IN  claiming' = IF r.err = "ok"
                              THEN [told EXCEPT !.pc = "done"]
                              ELSE Caught([told EXCEPT !.result = r.err],
                                          "backend")
    /\ UNCHANGED <<ledger, owner, wrapper, hook, walletManager, now, blockNumber, stack, lastCall,
                   lastResult, notified, observed, response, sending>>

\* The notification does not reach the backend.
claimNotifyFails ==
    /\ claiming.pc = "notify"
    /\ claiming' = Caught(claiming, "unavailable")
    /\ UNCHANGED <<ledger, owner, wrapper, hook, walletManager, now, blockNumber, stack, lastCall,
                   lastResult, offLedger, sending>>

----------------------------------------------------------------------------
(* contract TokenWrapper (UniswapV4Hook.sol).                               *)

Symbols == {"USDC", "DAI"}

\* The TokenInfo of a symbol that was never added.
NoTokenInfo ==
    [tokenAddress |-> ZERO, symbol |-> "", decimals |-> 0,
     isSupported |-> FALSE]

\* A call of the TokenWrapper and what it returned.
WrapperCall(fn, sender, _symbol, _tokenAddress, _decimals) ==
    [fn |-> fn, sender |-> sender, hash |-> "", address |-> _tokenAddress,
     amount |-> _decimals, symbol |-> _symbol]

addSupportedTokenRequires(sender, _symbol, _tokenAddress) ==
    IF sender # wrapperOwner THEN "Not owner"
    ELSE IF _tokenAddress = ZERO THEN "Invalid token address"
    ELSE IF supportedTokens[_symbol].isSupported THEN "Token already supported"
    ELSE "ok"

addSupportedToken(sender, _symbol, _tokenAddress, _decimals) ==
    /\ stack = <<>>
    /\ LET err == addSupportedTokenRequires(sender, _symbol, _tokenAddress)
       IN  /\ lastCall' = WrapperCall("addSupportedToken", sender, _symbol,
                                      _tokenAddress, _decimals)
           /\ lastResult' = err
           /\ IF err # "ok"
              THEN UNCHANGED <<supportedTokens, tokenSymbols>>
              ELSE /\ Len(tokenSymbols) < MaxSymbols
                   /\ supportedTokens' =
                        [supportedTokens EXCEPT ![_symbol] =
                            [tokenAddress |-> _tokenAddress,
                             symbol |-> _symbol, decimals |-> _decimals,
                             isSupported |-> TRUE]]
                   /\ tokenSymbols' = Append(tokenSymbols, _symbol)
    /\ UNCHANGED <<ledger, owner, wrapperOwner, wrapperTokens, hook,
                   walletManager, now, blockNumber, stack,
                   offLedger, client>>

removeSupportedToken(sender, _symbol) ==
    /\ stack = <<>>
    /\ LET err == IF sender # wrapperOwner THEN "Not owner"
                  ELSE IF ~supportedTokens[_symbol].isSupported
                       THEN "Token not supported"
                       ELSE "ok"
       IN  /\ lastCall' = WrapperCall("removeSupportedToken", sender, _symbol,
                                      ZERO, 0)
           /\ lastResult' = err
           /\ supportedTokens' =
                IF err # "ok" THEN supportedTokens
                ELSE [supportedTokens EXCEPT ![_symbol].isSupported = FALSE]
    /\ UNCHANGED <<ledger, owner, tokenSymbols, wrapperOwner, wrapperTokens,
                   hook, walletManager, now,
                   blockNumber, stack, offLedger, client>>

isTokenSupported(_symbol) == supportedTokens[_symbol].isSupported

\* The requires of wrapTokens and of unwrapTokens before the token call.
wrapRequires(_symbol, _amount) ==
    IF ~supportedTokens[_symbol].isSupported THEN "Token not supported"
    ELSE IF ~(_amount > 0) THEN "Amount must be positive"
    ELSE "ok"

\* wrapTokens(_symbol, _amount): the token moves _amount from msg.sender to
\* the contract, or reverts.
wrapTokens(sender, _symbol, _amount) ==
    /\ stack = <<>>
    /\ lastCall' = WrapperCall("wrapTokens", sender, _symbol, ZERO, _amount)
    /\ LET t == supportedTokens[_symbol].tokenAddress
           err == IF wrapRequires(_symbol, _amount) # "ok"
                  THEN wrapRequires(_symbol, _amount)
                  ELSE IF balanceOf[t][sender] < _amount
                  THEN "Insufficient balance"
                  ELSE IF wrapperAllowance[t][sender] < _amount
                  THEN "Insufficient allowance"
                  ELSE "ok"
       IN  /\ lastResult' = err
           /\ IF err # "ok"
              THEN UNCHANGED <<balanceOf, wrapperTokens>>
              ELSE /\ deposited[sender][_symbol] < MaxWrapped
                   /\ balanceOf' = [balanceOf EXCEPT ![t][sender] = @ - _amount]
                   /\ wrapperBalance' = [wrapperBalance EXCEPT ![t] = @ + _amount]
                   /\ wrapperAllowance' =
                        [wrapperAllowance EXCEPT ![t][sender] = @ - _amount]
                   /\ deposited' =
                        [deposited EXCEPT ![sender][_symbol] = @ + _amount]
                   /\ UNCHANGED withdrawn
    /\ UNCHANGED <<hiddenTransfers, userSentTransfers, userReceivedTransfers,
                   totalTransfers, totalClaimed, platformFee, feeCollector,
                   events, allowance, owner, supportedTokens, tokenSymbols,
                   wrapperOwner, hook, walletManager, now, blockNumber, stack,
                   offLedger, client>>

\* unwrapTokens(_symbol, _amount): the token moves _amount from the contract
\* to msg.sender, or reverts.
unwrapTokens(sender, _symbol, _amount) ==
    /\ stack = <<>>
    /\ lastCall' = WrapperCall("unwrapTokens", sender, _symbol, ZERO, _amount)
    /\ LET t == supportedTokens[_symbol].tokenAddress
           err == IF wrapRequires(_symbol, _amount) # "ok"
                  THEN wrapRequires(_symbol, _amount)
                  ELSE IF wrapperBalance[t] < _amount
                  THEN "Insufficient balance"
                  ELSE "ok"
       IN  /\ lastResult' = err
           /\ IF err # "ok"
              THEN UNCHANGED <<balanceOf, wrapperTokens>>
              ELSE /\ balanceOf' = [balanceOf EXCEPT ![t][sender] = @ + _amount]
                   /\ wrapperBalance' = [wrapperBalance EXCEPT ![t] = @ - _amount]
                   /\ withdrawn' =
                        [withdrawn EXCEPT ![sender][_symbol] = @ + _amount]
                   /\ UNCHANGED <<wrapperAllowance, deposited>>
    /\ UNCHANGED <<hiddenTransfers, userSentTransfers, userReceivedTransfers,
                   totalTransfers, totalClaimed, platformFee, feeCollector,
                   events, allowance, owner, supportedTokens, tokenSymbols,
                   wrapperOwner, hook, walletManager, now, blockNumber, stack,
                   offLedger, client>>

getAllSupportedTokens == tokenSymbols

\* After deployment (constructor) and the test-suite's setUp: tokens minted
\* and the contract approved for more than can ever be moved.
----------------------------------------------------------------------------
(* InvisibleTransferHook (UniswapV4Hook.sol).                              *)

\* The value of a swapMetadata entry that was never written.
NoSwapMetadata ==
    [hiddenTransferHash |-> "0x00", recipient |-> ZERO, isInvisible |-> FALSE]

Pools == {"pool1", "pool2"}     \* key.toId() of the pools the hook serves
ZERO_HASH == "0x00"             \* bytes32(0)

\* hookData: no bytes, bytes that are not an encoding of (bytes32, bool),
\* or abi.encode(hiddenHash, isInvisible).
EmptyHookData ==
    [length |-> 0, hiddenHash |-> ZERO_HASH, isInvisible |-> FALSE]
ShortHookData ==
    [length |-> 1, hiddenHash |-> ZERO_HASH, isInvisible |-> FALSE]
HookDataOf(hiddenHash, isInvisible) ==
    [length |-> 64, hiddenHash |-> hiddenHash, isInvisible |-> isInvisible]
HookDatas ==
    {EmptyHookData, ShortHookData}
        \cup {HookDataOf(h, b) : h \in Hashes \cup {ZERO_HASH}, b \in BOOLEAN}

\* encodeInvisibleSwapData(hiddenHash)
encodeInvisibleSwapData(hiddenHash) == HookDataOf(hiddenHash, TRUE)

\* keccak256(abi.encodePacked(sender, key.toId(), block.timestamp)): equal
\* for equal inputs and taken to differ for different ones.
swapIdOf(sender, key, timestamp) == <<sender, key, timestamp>>

\* getSwapMetadata(swapId)
getSwapMetadata(swapId) ==
    IF swapId \in DOMAIN swapMetadata THEN swapMetadata[swapId]
    ELSE NoSwapMetadata

HookCall(fn, sender, key, hookData) ==
    [fn |-> fn, sender |-> sender, hash |-> hookData.hiddenHash,
     address |-> ZERO, amount |-> 0, key |-> key, hookData |-> hookData]

\* The condition under which beforeSwap stores metadata.
isInvisibleSwap(hookData) ==
    /\ hookData.length > 0
    /\ hookData.isInvisible
    /\ hookData.hiddenHash # ZERO_HASH

\* beforeSwap(sender, key, params, hookData)
beforeSwap(sender, key, hookData) ==
    /\ stack = <<>>
    /\ lastCall' = HookCall("beforeSwap", sender, key, hookData)
    /\ IF hookData.length > 0 /\ hookData.length < 64
       THEN /\ lastResult' = "abi.decode reverted"
            /\ UNCHANGED hook
       ELSE /\ lastResult' = "beforeSwap.selector"
            /\ IF isInvisibleSwap(hookData)
               THEN LET swapId == swapIdOf(sender, key, now)
                        metadata ==
                            [hiddenTransferHash |-> hookData.hiddenHash,
                             recipient |-> sender, isInvisible |-> TRUE]
                    IN  /\ Len(hookEvents) < MaxSwaps
                        /\ swapMetadata' =
                             [id \in DOMAIN swapMetadata \cup {swapId} |->
                                 IF id = swapId THEN metadata
                                 ELSE swapMetadata[id]]
                        /\ hookEvents' =
                             Append(hookEvents,
                                    [name |-> "InvisibleSwapExecuted",
                                     swapId |-> swapId,
                                     hiddenHash |-> hookData.hiddenHash])
               ELSE UNCHANGED hook
    /\ UNCHANGED <<ledger, owner, wrapper, walletManager, now, blockNumber,
                   stack, offLedger, client>>

----------------------------------------------------------------------------
(* WalletManager (wallet.js).                                              *)

\* The accounts of the MetaMask wallet of this browser.
Accounts == {ALICE, BOB}

\* The calls of connect that may be in progress at once: the one made when
\* the page has loaded and the one of the connect button.
Runs == {1, 2}

\* No run of connect has been started.
NoConnect == [pc |-> "idle", value |-> FALSE]

\* connect() has returned value.
ConnectReturned(value) == [pc |-> "returned", value |-> value]

\* constructor()
NewWalletManager ==
    /\ provider' = NULL
    /\ signer' = NULL
    /\ userAddress' = NULL
    /\ network' = NULL
    /\ isConnected' = FALSE

\* connect() up to its first await.  window.ethereum does not vanish from a
\* page that has used it.
connect(r, installed) ==
    /\ connecting[r].pc \in {"idle", "returned"}
    /\ listeners < MaxListeners
    /\ installed \/ (provider = NULL /\ listeners = 0)
    /\ connecting' = [connecting EXCEPT ![r] =
                         IF ~installed THEN ConnectReturned(FALSE)
                         ELSE [pc |-> "request", value |-> FALSE]]
    /\ UNCHANGED <<provider, signer, userAddress, network, isConnected,
                   listeners>>
    /\ UNCHANGED <<ledger, owner, wrapper, hook, now, blockNumber, stack,
                   lastCall, lastResult, offLedger, client>>

\* eth_requestAccounts is granted: the provider and the signer are created
\* and signer.getAddress() is called.
connectRequestReturns(r) ==
    /\ connecting[r].pc = "request"
    /\ provider' = "Web3Provider"
    /\ signer' = "JsonRpcSigner"
    /\ connecting' = [connecting EXCEPT ![r].pc = "getAddress"]
    /\ UNCHANGED <<userAddress, network, isConnected, listeners>>
    /\ UNCHANGED <<ledger, owner, wrapper, hook, now, blockNumber, stack,
                   lastCall, lastResult, offLedger, client>>

\* An await of connect throws (the user rejects the request, the wallet or
\* the node fails): the catch block returns false.
connectFails(r) ==
    /\ connecting[r].pc \in {"request", "getAddress", "getNetwork"}
    /\ connecting' = [connecting EXCEPT ![r] = ConnectReturned(FALSE)]
    /\ UNCHANGED <<provider, signer, userAddress, network, isConnected,
                   listeners>>
    /\ UNCHANGED <<ledger, owner, wrapper, hook, now, blockNumber, stack,
                   lastCall, lastResult, offLedger, client>>

\* signer.getAddress() returns: userAddress is set and
\* this.provider.getNetwork() is called, which throws a TypeError when
\* this.provider is null by now.
connectAddressReturns(r, account) ==
    /\ connecting[r].pc = "getAddress"
    /\ userAddress' = account
    /\ connecting' = [connecting EXCEPT ![r] =
                         IF provider = NULL THEN ConnectReturned(FALSE)
                         ELSE [@ EXCEPT !.pc = "getNetwork"]]
    /\ UNCHANGED <<provider, signer, network, isConnected, listeners>>
    /\ UNCHANGED <<ledger, owner, wrapper, hook, now, blockNumber, stack,
                   lastCall, lastResult, offLedger, client>>

\* provider.getNetwork() returns: the manager is connected, the listeners
\* are registered and connect returns true.
connectNetworkReturns(r) ==
    /\ connecting[r].pc = "getNetwork"
    /\ network' = "sepolia"
    /\ isConnected' = TRUE
    /\ listeners' = listeners + 1
    /\ connecting' = [connecting EXCEPT ![r] = ConnectReturned(TRUE)]
    /\ UNCHANGED <<provider, signer, userAddress>>
    /\ UNCHANGED <<ledger, owner, wrapper, hook, now, blockNumber, stack,
                   lastCall, lastResult, offLedger, client>>

\* disconnect()
disconnect ==
    /\ provider' = NULL
    /\ signer' = NULL
    /\ userAddress' = NULL
    /\ isConnected' = FALSE
    /\ UNCHANGED <<network, connecting, listeners>>

\* window.location.reload(): the page starts again with a new manager and
\* no listeners; the runs of the page are gone.
reload ==
    /\ NewWalletManager
    /\ connecting' = [r \in Runs |-> NoConnect]
    /\ listeners' = 0
    /\ sending' = NoSend

\* handleAccountChanged(newAccount): userAddress is set and the page is
\* reloaded.
handleAccountChanged(newAccount) == reload

\* MetaMask emits accountsChanged(accounts) to the listeners that connect
\* registered.
accountsChanged(accounts) ==
    /\ listeners > 0
    /\ IF Len(accounts) = 0
       THEN disconnect /\ UNCHANGED sending
       ELSE handleAccountChanged(accounts[1])
    /\ UNCHANGED <<ledger, owner, wrapper, hook, now, blockNumber, stack,
                   lastCall, lastResult, offLedger, claiming>>

\* MetaMask emits chainChanged.
chainChanged ==
    /\ listeners > 0
    /\ reload
    /\ UNCHANGED <<ledger, owner, wrapper, hook, now, blockNumber, stack,
                   lastCall, lastResult, offLedger, claiming>>

----------------------------------------------------------------------------
Holders == {OWNER, ALICE, EVIL}
\* The contracts as deployed and funded, the backend and the runs of the
\* page as they start.
Deployed ==
    /\ hiddenTransfers = [h \in Hashes |-> NoTransfer]
    /\ userSentTransfers = [a \in Addresses |-> <<>>]
    /\ userReceivedTransfers = [a \in Addresses |-> <<>>]
    /\ owner = OWNER
    /\ totalTransfers = 0
    /\ totalClaimed = 0
    /\ platformFee \in ConstructorArgs
    /\ feeCollector = OWNER
    /\ events = <<>>
    /\ balanceOf = [t \in Tokens |->
                      [a \in Addresses |->
                          IF a \in Holders THEN InitialBalance ELSE 0]]
    /\ allowance = [t \in Tokens |->
                      [a \in Addresses |->
                          Cardinality(Holders) * InitialBalance]]
    /\ now = 1
    /\ blockNumber = 0
    /\ stack = <<>>
    /\ lastCall = CallOf("constructor", OWNER, "", ZERO, platformFee)
    /\ lastResult = "ok"
    /\ index = [h \in Hashes |-> NoIndexRecord]
    /\ notified = {}
    /\ mismatches = {}
    /\ observed = 0
    /\ response = NoResponse
    /\ supportedTokens = [s \in Symbols |-> NoTokenInfo]
    /\ tokenSymbols = <<>>
    /\ wrapperOwner = OWNER
    /\ wrapperBalance = [t \in Tokens |-> 0]
    /\ wrapperAllowance = [t \in Tokens |->
                             [a \in Addresses |->
                                 Cardinality(Holders) * InitialBalance]]
    /\ deposited = [a \in Addresses |-> [s \in Symbols |-> 0]]
    /\ withdrawn = [a \in Addresses |-> [s \in Symbols |-> 0]]
    /\ swapMetadata = [id \in {} |-> NoSwapMetadata]
    /\ hookEvents = <<>>
    /\ sending = NoSend
    /\ claiming = NoClaim

\* The wallet manager as constructed.
Constructed ==
    /\ provider = NULL
    /\ signer = NULL
    /\ userAddress = NULL
    /\ network = NULL
    /\ isConnected = FALSE
    /\ connecting = [r \in Runs |-> NoConnect]
    /\ listeners = 0

\* The wallet manager after the page's first connect() returned true for
\* this account.
ConnectedAs(account) ==
    /\ provider = "Web3Provider"
    /\ signer = "JsonRpcSigner"
    /\ userAddress = account
    /\ network = "sepolia"
    /\ isConnected = TRUE
    /\ connecting = [r \in Runs |->
                        IF r = 1 THEN ConnectReturned(TRUE) ELSE NoConnect]
    /\ listeners = 1

Init == Deployed /\ Constructed

\* The escrow state machine with the plain token: every call is one step.
Next ==
    \/ \E c \in {ALICE, BOB}, h \in Hashes, t \in {TOKEN, ZERO}, a \in {0, 300} :
          publishHiddenTransfer(c, h, t, a)
    \/ \E c \in {ALICE, BOB}, h \in Hashes : claimHiddenTransfer(c, h)
    \/ \E c \in {ALICE, BOB}, h \in Hashes : cancelHiddenTransfer(c, h)
    \/ \E d \in {1, SEVEN_DAYS - 1} : AdvanceTime(d)

Spec == Init /\ [][Next]_vars

\* Publishing under the fee configurations the owner can set.
NextFee ==
    \/ \E c \in {OWNER, ALICE}, h \in Hashes, a \in {100, 300} :
          publishHiddenTransfer(c, h, TOKEN, a)
    \/ \E c \in {OWNER, ALICE}, fee \in {0, MAX_FEE, MAX_FEE + 1} :
          updatePlatformFee(c, fee)
    \/ \E c \in {OWNER, ALICE}, a \in {ZERO, THIS, ALICE} :
          updateFeeCollector(c, a)

SpecFee == Init /\ [][NextFee]_vars

\* The owner's operations, called by the owner and by another account, on a
\* contract that holds escrowed tokens.
NextAdmin ==
    \/ \E h \in Hashes : publishHiddenTransfer(ALICE, h, TOKEN, 300)
    \/ \E c \in {OWNER, ALICE}, fee \in {MAX_FEE, MAX_FEE + 1} :
          updatePlatformFee(c, fee)
    \/ \E c \in {OWNER, ALICE}, a \in {ZERO, ALICE} : updateFeeCollector(c, a)
    \/ \E c \in {OWNER, ALICE}, a \in {100, 2 * InitialBalance} :
          emergencyWithdraw(c, TOKEN, a)

SpecAdmin == Init /\ [][NextAdmin]_vars

\* Publishing with arguments the requires refuse and with tokens that fail:
\* the plain token for an account without balance, and a token that returns
\* false to transferFrom or to the fee transfer.
NextFailing ==
    \/ \E c \in {ALICE, BOB}, h \in Hashes, t \in {TOKEN, EVIL, ZERO},
          a \in {0, 300} : publishHiddenTransfer(c, h, t, a)
    \/ TokenReturns
    \/ TokenFails

SpecFailing == Init /\ [][NextFailing]_vars

\* The clients, the backend and the ledger: identifiers are generated by
\* the backend and published by their sender; claims and cancels are calls
\* of the contract by any account.
NextIndex ==
    \/ \E h \in Hashes : generateHash(ALICE, BOB, h)
    \/ \E h \in Hashes :
          /\ index[h].status = "pending"
          /\ publishHiddenTransfer(index[h].sender, h, TOKEN, 300)
    \/ \E c \in {ALICE, BOB}, h \in Hashes : claimHiddenTransfer(c, h)
    \/ \E h \in Hashes : cancelHiddenTransfer(ALICE, h)
    \/ AdvanceTime(SEVEN_DAYS)
    \/ \E i \in 1..Len(events) : claimNotification(i)
    \/ onContractEvent

\* The contract as the deployment script constructs it.
InitDeployed == Init /\ platformFee = 50

\* The page of alice after its wallet was connected.
InitConnected == Deployed /\ platformFee = 50 /\ ConnectedAs(ALICE)

SpecIndex == InitDeployed /\ [][NextIndex]_vars

\* The send form of alice's wallet, submitted with every kind of input,
\* and the owner publishing under the same identifiers on its own.
NextSend ==
    \/ accountsChanged(<<>>)
    \/ \E r \in RecipientInputs, a \in AmountInputs, t \in TokenInputs :
          handleSendTransaction(userAddress, r, a, t)
    \/ \E h \in Hashes : generateHashReturns(h)
    \/ generateHashFails
    \/ approve(ALICE, TOKEN, 100)
    \/ checkAndApproveToken
    \/ sendRejected
    \/ sendPublish
    \/ sendWaitReturns
    \/ sendWaitFails
    \/ \E h \in Hashes : publishHiddenTransfer(OWNER, h, TOKEN, 300)

SpecSend == InitConnected /\ [][NextSend]_vars

\* Transfers of alice to bob, and the claim button of bob's and of alice's
\* wallet.
NextClaim ==
    \/ \E h \in Hashes : generateHash(ALICE, BOB, h)
    \/ \E h \in Hashes :
          /\ index[h].status = "pending"
          /\ publishHiddenTransfer(index[h].sender, h, TOKEN, 300)
    \/ \E w \in {ALICE, BOB}, h \in Hashes : claimTransaction(w, h)
    \/ claimMined
    \/ claimRejected
    \/ claimWaitReturns
    \/ claimWaitFails
    \/ claimNotify
    \/ claimNotifyFails

SpecClaim == InitDeployed /\ [][NextClaim]_vars

\* The backend's endpoints called directly, with every identifier and
\* every claimer.
NextApi ==
    \/ \E r \in {ALICE, BOB}, h \in Hashes : generateHash(ALICE, r, h)
    \/ \E c \in {ALICE, BOB, EVIL}, h \in Hashes : postClaimTransaction(h, c)

SpecApi == InitDeployed /\ [][NextApi]_vars

\* The TokenWrapper called by its owner and by another account.
NextWrapper ==
    \/ \E c \in {OWNER, ALICE}, s \in Symbols, t \in {TOKEN, ZERO},
          d \in {6, 18} : addSupportedToken(c, s, t, d)
    \/ \E c \in {OWNER, ALICE}, s \in Symbols : removeSupportedToken(c, s)

SpecWrapper == InitDeployed /\ [][NextWrapper]_vars

\* The transfers of the plain token together with the owner's fee
\* settings.
NextCustody ==
    \/ \E h \in Hashes : publishHiddenTransfer(ALICE, h, TOKEN, 300)
    \/ \E h \in Hashes : claimHiddenTransfer(BOB, h)
    \/ \E h \in Hashes : cancelHiddenTransfer(ALICE, h)
    \/ updatePlatformFee(OWNER, MAX_FEE)
    \/ \E a \in {THIS, ALICE} : updateFeeCollector(OWNER, a)
    \/ AdvanceTime(SEVEN_DAYS)

SpecCustody == Init /\ [][NextCustody]_vars

\* Swaps through the pools of the hook, several of them in a block.
NextHook ==
    \/ \E c \in {ALICE, BOB}, key \in Pools, hookData \in HookDatas :
          beforeSwap(c, key, hookData)
    \/ AdvanceTime(1)

SpecHook == InitDeployed /\ [][NextHook]_vars

\* The wallet manager of a page: connect is called whenever no run of it
\* is in progress, and MetaMask reports account and chain changes.
NextWallet ==
    \/ \E r \in Runs, installed \in BOOLEAN : connect(r, installed)
    \/ \E r \in Runs : connectRequestReturns(r)
    \/ \E r \in Runs : connectFails(r)
    \/ \E r \in Runs, a \in Accounts : connectAddressReturns(r, a)
    \/ \E r \in Runs : connectNetworkReturns(r)
    \/ \E accounts \in {<<>>, <<ALICE>>, <<BOB>>} : accountsChanged(accounts)
    \/ chainChanged

SpecWallet == InitDeployed /\ [][NextWallet]_vars

\* Users wrapping and unwrapping the tokens the owner has added.
NextWrap ==
    \/ \E s \in Symbols : addSupportedToken(OWNER, s, TOKEN, 6)
    \/ \E c \in {ALICE, BOB}, s \in Symbols, a \in {0, 200} :
          wrapTokens(c, s, a)
    \/ \E c \in {ALICE, BOB}, s \in Symbols, a \in {0, 200} :
          unwrapTokens(c, s, a)

SpecWrap == InitDeployed /\ [][NextWrap]_vars

\* The escrow state machine with a token that calls back: a call is a frame
\* of the stack, the token's steps are TokenReturns and TokenFails, and the
\* token is the caller of every call made while a frame waits.
NextReentrant ==
    \/ \E c \in {ALICE, EVIL}, h \in Hashes :
          publishHiddenTransfer(c, h, EVIL, 300)
    \/ \E c \in {ALICE, EVIL}, h \in Hashes : claimHiddenTransfer(c, h)
    \/ \E c \in {ALICE, EVIL}, h \in Hashes : cancelHiddenTransfer(c, h)
    \/ TokenReturns
    \/ TokenFails
    \/ AdvanceTime(SEVEN_DAYS)

SpecReentrant == InitDeployed /\ [][NextReentrant]_vars

----------------------------------------------------------------------------
(* Properties.  lastCall' and lastResult' of a step in which a call        *)
(* returned are that call and what it returned.                            *)

Exists(h)   == hiddenTransfers[h].timestamp # 0
Escrowed(h) == Exists(h) /\ ~hiddenTransfers[h].claimed
Settled(h)  == Exists(h) /\ hiddenTransfers[h].claimed

\* A call of fn is made in this step and returns in it: it reverts in its
\* requires, or its token calls are to the plain token.
Returned(fn) == now' = now /\ stack' = stack /\ lastCall'.fn = fn

\* The positions of the log that hold an event of this name for h.
Emitted(name, h) ==
    {i \in 1..Len(events) : events[i].name = name /\ events[i].hash = h}

\* floor(A * R / 10000)
FloorFee(A, R) == (A * R) \div 10000

\* C1: publishHiddenTransfer(h, token, amount) with amount > 0, by any
\* caller, for an identifier h that already has a record (escrowed or
\* settled) reverts with "Hash already exists", and the records, counters,
\* lists, log, balances and allowances are as before the call.
C1_PublishExistingReverts ==
    [][(/\ Returned("publish")
        /\ lastCall'.amount > 0
        /\ Exists(lastCall'.hash))
          => (lastResult' = "Hash already exists" /\ UNCHANGED ledger)]_vars

\* A publish was refused for an identifier that is settled while the other
\* identifier is still escrowed.
C1_Witness ==
    /\ lastCall.fn = "publish"
    /\ lastResult = "Hash already exists"
    /\ Settled(lastCall.hash)
    /\ \E h \in Hashes : Escrowed(h)

\* C4: for an escrowed, unclaimed identifier published at time T,
\* cancelHiddenTransfer by the original sender reverts with "Too early to
\* cancel" (changing nothing) at every time < T + 7 days, and at every time
\* >= T + 7 days it succeeds, sets claimed and increases the sender's token
\* balance by exactly the recorded amount.
C4_CancelWindow ==
    [][LET h == lastCall'.hash
           c == lastCall'.sender
           t == hiddenTransfers[h]
       IN  (Returned("cancel") /\ Escrowed(h) /\ t.sender = c)
             => IF now < t.timestamp + SEVEN_DAYS
                THEN lastResult' = "Too early to cancel" /\ UNCHANGED ledger
                ELSE /\ lastResult' = "ok"
                     /\ hiddenTransfers'[h].claimed
                     /\ balanceOf'[t.token][c] = balanceOf[t.token][c] + t.amount]_vars

\* A cancel succeeded at exactly T + 7 days.
C4_Witness ==
    /\ lastCall.fn = "cancel"
    /\ lastResult = "ok"
    /\ now = hiddenTransfers[lastCall.hash].timestamp + SEVEN_DAYS

\* C5: cancelHiddenTransfer(h) by any address other than the record's
\* sender reverts with "Not the sender" and changes nothing, whether h is
\* unpublished, escrowed before or after the window, or settled.
C5_CancelByOtherReverts ==
    [][(/\ Returned("cancel")
        /\ hiddenTransfers[lastCall'.hash].sender # lastCall'.sender)
          => (lastResult' = "Not the sender" /\ UNCHANGED ledger)]_vars

\* A cancel by another address was refused with "Not the sender" for an
\* identifier that is already settled.
C5_Witness ==
    /\ lastCall.fn = "cancel"
    /\ lastResult = "Not the sender"
    /\ Settled(lastCall.hash)

\* C6 as stated: a successful publish of amount A under the fee rate R
\* records the escrow amount A - floor(A * R / 10000), increases the fee
\* collector's balance by exactly floor(A * R / 10000) and decreases the
\* sender's balance by exactly A, whoever the sender and the fee collector
\* are (the sender may be the collector, the collector may be the contract).
C6_FeeSplitForEveryCollector ==
    [][LET c   == lastCall'
           fee == FloorFee(c.amount, platformFee)
           bal == balanceOf[c.address]
       IN  (Returned("publish") /\ lastResult' = "ok")
             => /\ hiddenTransfers'[c.hash].amount = c.amount - fee
                /\ balanceOf'[c.address][feeCollector] = bal[feeCollector] + fee
                /\ balanceOf'[c.address][c.sender] = bal[c.sender] - c.amount]_vars

\* C6: a successful publish of amount A under the fee rate R records the
\* escrow amount A - floor(A * R / 10000).  When the fee collector is
\* neither the sender nor the contract, the collector's balance increases
\* by exactly the fee, the sender's decreases by exactly A and the
\* contract's increases by the recorded amount.  When the sender is the fee
\* collector its balance decreases by A minus the fee; when the fee
\* collector is the contract the fee stays in the contract, whose balance
\* increases by A.
C6_FeeSplit ==
    [][LET c   == lastCall'
           fee == FloorFee(c.amount, platformFee)
           bal == balanceOf[c.address]
           new == balanceOf'[c.address]
       IN  (Returned("publish") /\ lastResult' = "ok")
             => /\ hiddenTransfers'[c.hash].amount = c.amount - fee
                /\ IF feeCollector = c.sender
                   THEN /\ new[c.sender] = bal[c.sender] - (c.amount - fee)
                        /\ new[THIS] = bal[THIS] + (c.amount - fee)
                   ELSE IF feeCollector = THIS
                   THEN /\ new[c.sender] = bal[c.sender] - c.amount
                        /\ new[THIS] = bal[THIS] + c.amount
                   ELSE /\ new[c.sender] = bal[c.sender] - c.amount
                        /\ new[feeCollector] = bal[feeCollector] + fee
                        /\ new[THIS] = bal[THIS] + (c.amount - fee)]_vars

\* A publish of 300 at the rate of 50 basis points (1.5 rounds down to a
\* fee of 1) succeeded with a fee collector that is neither the sender nor
\* the contract.
C6_Witness ==
    /\ lastCall.fn = "publish"
    /\ lastResult = "ok"
    /\ lastCall.amount = 300
    /\ platformFee = 50
    /\ hiddenTransfers[lastCall.hash].amount = 299
    /\ feeCollector \notin {lastCall.sender, THIS}

\* C8 as stated: claimHiddenTransfer(h) on an escrowed, unclaimed identifier
\* succeeds for every caller, sets claimed, and moves exactly the recorded
\* amount from the contract to the caller.
C8_ClaimByAnyoneSucceeds ==
    [][LET h == lastCall'.hash
           c == lastCall'.sender
           t == hiddenTransfers[h]
       IN  (Returned("claim") /\ Escrowed(h))
             => /\ lastResult' = "ok"
                /\ hiddenTransfers'[h].claimed
                /\ balanceOf'[t.token][c] = balanceOf[t.token][c] + t.amount
                /\ balanceOf'[t.token][THIS] = balanceOf[t.token][THIS] - t.amount]_vars

\* A call of fn for h is entered in this step: it returns in the step, or
\* it is left waiting in a call to the token.
Entered(fn, h) ==
    /\ now' = now
    /\ \/ stack' = stack /\ lastCall'.fn = fn /\ lastCall'.hash = h
       \/ /\ Len(stack') = Len(stack) + 1
          /\ stack'[Len(stack')].call.fn = fn
          /\ stack'[Len(stack')].call.hash = h

\* C9 as stated: the existence check and the record write of publish are
\* race-free, also against calls re-entered from the token: at most one
\* publish of an identifier ever succeeds, so no call in progress leaves
\* the log with two TransferPublished events for the same identifier.
C9_PublishedAtMostOnce ==
    stack = <<>> =>
        \A h \in Hashes : Cardinality(Emitted("TransferPublished", h)) <= 1

\* C7 as stated: a record only moves Unpublished -> Escrowed -> Settled:
\* in every step that is not the revert of a call, an existing record keeps
\* its sender, token, amount and timestamp, and its claimed flag never
\* goes back from true to false.
C7_RecordNeverRewritten ==
    [][\/ stack # <<>> /\ stack' = Pop /\ lastResult' # "ok"
       \/ \A h \in Hashes :
            Exists(h) =>
              \/ hiddenTransfers'[h] = hiddenTransfers[h]
              \/ /\ ~hiddenTransfers[h].claimed
                 /\ hiddenTransfers'[h] =
                      [hiddenTransfers[h] EXCEPT !.claimed = TRUE]]_vars

\* C2 as stated: after a claim of h has succeeded, every later
\* claimHiddenTransfer(h) fails with "Already claimed" and changes nothing.
C2_LaterClaimsRefused ==
    [][\A h \in Hashes :
         (Entered("claim", h) /\ Emitted("TransferClaimed", h) # {})
           => (/\ stack' = stack
               /\ lastResult' = "Already claimed"
               /\ UNCHANGED ledger)]_vars

\* C3 as stated: claim and cancel exclude each other: no identifier ever
\* has both a TransferClaimed and a TransferCancelled event in the log.
C3_ClaimedXorCancelled ==
    \A h \in Hashes :
        Emitted("TransferClaimed", h) = {} \/ Emitted("TransferCancelled", h) = {}

\* C10 as stated: no interleaving of claim and cancel, re-entered from the
\* token or not, pays out the same identifier twice: the payouts of an
\* identifier (its TransferClaimed and TransferCancelled events) are at
\* most one.
C10_PaidOutAtMostOnce ==
    \A h \in Hashes :
        Cardinality(Emitted("TransferClaimed", h))
          + Cardinality(Emitted("TransferCancelled", h)) <= 1

\* C11 as stated: in every reachable state, for every constructor argument
\* and every sequence of fee updates and publishes, every existing record
\* has a recorded amount strictly greater than zero.
C11_RecordedAmountPositive ==
    \A h \in Hashes : Exists(h) => hiddenTransfers[h].amount > 0

\* C12 as stated: the platform fee rate is at most 500 basis points in
\* every reachable state, after construction with any argument and after
\* any sequence of updatePlatformFee calls.
C12_FeeRateBounded == platformFee <= MAX_FEE

\* The owner's operations.
AdminFunctions == {"updatePlatformFee", "updateFeeCollector", "emergencyWithdraw"}

\* C13: updatePlatformFee, updateFeeCollector and emergencyWithdraw called
\* by any address other than the owner fail with "Not owner" and change
\* nothing; the owner is the deployer in every state and no step changes
\* it; the fee collector is never the zero address.
C13_OnlyOwner ==
    /\ [](owner = OWNER /\ feeCollector # ZERO)
    /\ [][/\ owner' = owner
          /\ (/\ now' = now
              /\ stack' = stack
              /\ lastCall'.fn \in AdminFunctions
              /\ lastCall'.sender # owner)
               => (lastResult' = "Not owner" /\ UNCHANGED ledger)]_vars

\* Another account was refused an emergencyWithdraw of an amount the
\* contract holds, with a fee collector the owner had set.
C13_Witness ==
    /\ lastCall.fn = "emergencyWithdraw"
    /\ lastCall.sender # owner
    /\ lastResult = "Not owner"
    /\ balanceOf[lastCall.address][THIS] >= lastCall.amount
    /\ feeCollector # OWNER

\* C14: after a successful publishHiddenTransfer(h, token, A) by s, the
\* record of h has sender s, the given token, claimed = false, the current
\* (non-zero) block time as timestamp and the post-fee amount, and the log
\* grows by exactly one TransferPublished event with h, s, the token and
\* the post-fee amount.
C14_PublishRecordAndEvent ==
    [][LET c   == lastCall'
           net == c.amount - FloorFee(c.amount, platformFee)
       IN  (Returned("publish") /\ lastResult' = "ok")
             => /\ now # 0
                /\ hiddenTransfers'[c.hash] =
                     [sender |-> c.sender, token |-> c.address,
                      amount |-> net, timestamp |-> now, claimed |-> FALSE]
                /\ events' =
                     Append(events,
                            [name |-> "TransferPublished", hash |-> c.hash,
                             sender |-> c.sender, token |-> c.address,
                             amount |-> net])]_vars

\* A publish of 300 succeeded and the last event of the log carries 299.
C14_Witness ==
    /\ lastCall.fn = "publish"
    /\ lastResult = "ok"
    /\ lastCall.amount = 300
    /\ events # <<>>
    /\ events[Len(events)].name = "TransferPublished"
    /\ events[Len(events)].amount = 299
    /\ hiddenTransfers[lastCall.hash].timestamp = now

\* C16: claimHiddenTransfer(h) on an identifier that was never published
\* fails with "Transfer does not exist" for every caller, creates no
\* record, and leaves counters, lists, log and balances unchanged.
C16_ClaimUnpublishedReverts ==
    [][(Returned("claim") /\ ~Exists(lastCall'.hash))
         => (/\ lastResult' = "Transfer does not exist"
             /\ hiddenTransfers'[lastCall'.hash] = NoTransfer
             /\ UNCHANGED ledger)]_vars

\* A claim of an unpublished identifier was refused while the other
\* identifier is in escrow.
C16_Witness ==
    /\ lastCall.fn = "claim"
    /\ lastResult = "Transfer does not exist"
    /\ ~Exists(lastCall.hash)
    /\ \E h \in Hashes : Escrowed(h)

\* C15: publishHiddenTransfer with amount 0 fails with "Amount must be
\* positive"; with the zero token address it fails, with "Invalid token
\* address" when the amount is positive and the identifier unused (the
\* requires before it are those of the amount and of the identifier); when
\* the token's transferFrom or the fee transfer fails the publish fails.
\* In each case records, counters, lists, log and balances are as before
\* the call.
C15_PublishFailuresChangeNothing ==
    [][LET c == lastCall'
       IN  /\ (Returned("publish") /\ c.amount = 0)
                => (/\ lastResult' = "Amount must be positive"
                    /\ UNCHANGED ledger)
           /\ (Returned("publish") /\ c.address = ZERO)
                => (/\ lastResult' # "ok"
                    /\ UNCHANGED ledger
                    /\ (c.amount > 0 /\ ~Exists(c.hash))
                         => lastResult' = "Invalid token address")
           /\ (/\ Returned("publish")
               /\ c.address = TOKEN
               /\ balanceOf[TOKEN][c.sender] < c.amount)
                => (lastResult' # "ok" /\ UNCHANGED ledger)
           /\ (/\ stack # <<>>
               /\ stack' = Pop
               /\ Top.fn = "publish"
               /\ lastResult' # "ok")
                => (/\ lastResult' \in {"Token transfer failed",
                                        "Fee transfer failed",
                                        "Insufficient balance",
                                        "Insufficient allowance"}
                    /\ World' = Top.snap)]_vars

\* A publish failed in its fee transfer, after its transferFrom had
\* succeeded: no record, and the contract holds nothing of the token.
C15_Witness ==
    /\ lastCall.fn = "publish"
    /\ lastResult = "Fee transfer failed"
    /\ stack = <<>>
    /\ ~Exists(lastCall.hash)
    /\ balanceOf[lastCall.address][lastCall.sender] = InitialBalance
    /\ balanceOf[lastCall.address][THIS] = 0
    /\ events = <<>>

\* Every event of the log was delivered to the listeners and every claim
\* event was reported to the backend.
Drained ==
    /\ observed = Len(events)
    /\ \A i \in 1..Len(events) :
         events[i].name = "TransferClaimed" => i \in notified

Indexed(h) == index[h].status # "none"

\* The backend refused a claim of h by an address other than its recipient.
MismatchLogged(h) == \E m \in mismatches : m.hash = h

\* The ledger emitted TransferClaimed for h with the recipient the backend
\* knows as caller.
ClaimedByRecipient(h) ==
    \E i \in Emitted("TransferClaimed", h) :
        events[i].recipient = index[h].recipient

\* C17 as stated: once every ledger claim and cancel event has been
\* processed, for every identifier of the Index the status is "claimed" if
\* and only if the ledger record's claimed flag is true, unless a claimer
\* mismatch was logged for it.
C17_ClaimedIffLedgerFlag ==
    Drained =>
        \A h \in Hashes :
            (Indexed(h) /\ ~MismatchLogged(h))
                => (index[h].status = "claimed" <=> hiddenTransfers[h].claimed)

\* C17: once every ledger event has been processed, for every identifier
\* of the Index the status is "claimed" if and only if the ledger emitted
\* TransferClaimed for it with the Index recipient as caller, and then the
\* ledger's claimed flag is true; a true flag under any other status means
\* a cancel by the sender or a claim by another address, logged as a
\* mismatch.
C17_ClaimedIffClaimEvent ==
    Drained =>
        \A h \in Hashes :
            Indexed(h) =>
                /\ index[h].status = "claimed" <=> ClaimedByRecipient(h)
                /\ index[h].status = "claimed" => hiddenTransfers[h].claimed
                /\ (hiddenTransfers[h].claimed /\ index[h].status # "claimed")
                     => \/ Emitted("TransferCancelled", h) # {}
                        \/ MismatchLogged(h)

\* Everything is processed; one identifier was claimed by its recipient and
\* is "claimed" in the Index, the other was cancelled by its sender: its
\* ledger flag is true and its Index status is not "claimed".
C17_Witness ==
    /\ Drained
    /\ \E h1, h2 \in Hashes :
         /\ index[h1].status = "claimed"
         /\ hiddenTransfers[h1].claimed
         /\ Emitted("TransferCancelled", h2) # {}
         /\ hiddenTransfers[h2].claimed
         /\ index[h2].status # "claimed"

\* C18 as stated, on a run that has processed everything: when the
\* sender's cancel of h succeeded on the ledger and every event has been
\* observed, the Index record of h is cancelled (no longer pending).
C18_CancelReachesIndex ==
    Drained =>
        \A h \in Hashes :
            (Indexed(h) /\ Emitted("TransferCancelled", h) # {})
                => index[h].status = "cancelled"

\* The addresses the ledger holds next to identifier h: in its record, in
\* its events and as owners of the lists h is filed in.
LedgerAddressesOf(h) ==
    {hiddenTransfers[h].sender, hiddenTransfers[h].token}
      \cup {events[i].sender : i \in Emitted("TransferPublished", h)
                                      \cup Emitted("TransferCancelled", h)}
      \cup {events[i].recipient : i \in Emitted("TransferClaimed", h)}
      \cup {a \in Addresses :
              \E k \in 1..Len(userSentTransfers[a]) :
                  userSentTransfers[a][k] = h}
      \cup {a \in Addresses :
              \E k \in 1..Len(userReceivedTransfers[a]) :
                  userReceivedTransfers[a][k] = h}

C20_AmountNotOnLedger ==
    [][LET c == lastCall'
       IN  (Returned("publish") /\ lastResult' = "ok")
             => \A a \in {100, 300} :
                  LET f == Frame(c, "transferFrom", c.address, a,
                                 Fee(World, a))
                      w == publishRecord(World, f)
                  IN  /\ w.hiddenTransfers[c.hash] = hiddenTransfers'[c.hash]
                      /\ w.events = events']_vars

----------------------------------------------------------------------------
(* The client's flows.                                                     *)

SendSteps == <<"generateHash", "approve", "publish">>

\* C21: in every run of handleSendTransaction the requests happen in the
\* order generate-hash (answered by the backend, which recorded the
\* identifier), token approval, publish; so a publish is made only after
\* generate-hash returned, and it carries the identifier generate-hash
\* returned, which the backend has on record for this sender and recipient.
C21_SendOrder ==
    LET t == sending.trace
    IN  /\ Len(t) <= Len(SendSteps)
        /\ \A i \in 1..Len(t) : t[i].op = SendSteps[i]
        /\ Len(t) >= 1 =>
              /\ index[t[1].hash].status # "none"
              /\ index[t[1].hash].sender = sending.wallet
              /\ index[t[1].hash].recipient = sending.recipient
        /\ Len(t) = 3 => t[3].hash = t[1].hash
        /\ \A h \in Hashes :
              Exists(h) /\ hiddenTransfers[h].sender = ALICE =>
                 index[h].status # "none" /\ index[h].sender = ALICE

C21_Witness ==
    /\ sending.pc = "done"
    /\ Len(sending.trace) = 3
    /\ Escrowed(sending.hash)
    /\ hiddenTransfers[sending.hash].sender = ALICE

\* The ledger executed a claim of h by wallet w: its event is in the log.
ClaimConfirmed(h, w) ==
    \E i \in 1..Len(events) :
        /\ events[i].name = "TransferClaimed"
        /\ events[i].hash = h
        /\ events[i].recipient = w

HasStep(flow, op) == \E i \in 1..Len(flow.trace) : flow.trace[i].op = op

\* C22: the wallet notifies the backend of a claim of h only after the
\* ledger executed its claim of h and tx.wait() confirmed it; a claim that
\* was rejected, reverted or not confirmed ends without a notification, and
\* the Index marks an identifier claimed only in the notification of a
\* confirmed claim.
C22_NotifyOnlyAfterConfirmedClaim ==
    /\ [](/\ (HasStep(claiming, "notify") \/ claiming.pc = "notify") =>
                /\ claiming.trace[1] = [op |-> "claim", hash |-> claiming.hash]
                /\ ClaimConfirmed(claiming.hash, claiming.wallet)
          /\ (claiming.pc = "error" /\ claiming.cause \in {"rejected", "reverted"})
                => ~HasStep(claiming, "notify"))
    /\ [][\A h \in Hashes :
            index[h].status # "claimed" /\ index'[h].status = "claimed" =>
               /\ claiming.pc = "notify"
               /\ claiming.hash = h
               /\ ClaimConfirmed(h, claiming.wallet)
               /\ HasStep(claiming', "notify")]_vars

C22_Witness ==
    /\ claiming.pc = "done"
    /\ HasStep(claiming, "notify")
    /\ index[claiming.hash].status = "claimed"
    /\ Settled(claiming.hash)

\* What was typed into the send form is not a valid request: a recipient
\* that is no address, an amount that is not a positive number, or a token
\* the client does not know.
IsNumber(s) == parseUnits(s, 6).ok
InvalidSendInput(s) ==
    \/ ~isValidAddress(s.recipient)
    \/ ~IsNumber(s.amount)
    \/ LessOrEqualZero(parseFloat(s.amount))
    \/ getTokenAddress(s.token) = NULL

\* C23: a send request with a malformed recipient, a non-positive or
\* non-numeric amount, or an unsupported token makes no request at all: no
\* approve or publish reaches the ledger and no identifier is generated or
\* recorded for it.
C23_InvalidSendSubmitsNothing ==
    (sending.pc # "idle" /\ InvalidSendInput(sending)) =>
        /\ sending.trace = <<>>
        /\ sending.hash = ""
        /\ sending.pc \in {"error", "generate"}

\* No approve and no publish is made for such a request.
InvalidSendReachesNoLedger ==
    (sending.pc # "idle" /\ InvalidSendInput(sending)) =>
        /\ ~HasStep(sending, "approve")
        /\ ~HasStep(sending, "publish")
        /\ sending.pc \notin {"approve", "publish", "wait", "done"}

\* C24: when waiting for the confirmation of a broadcast publish fails, the
\* ledger's record of the identifier decides what is reported: a send whose
\* publish the ledger executed successfully is never reported as failed.
C24_SucceededPublishNotReportedFailed ==
    (sending.pc = "error" /\ sending.hash # "") =>
        ~(/\ Exists(sending.hash)
          /\ hiddenTransfers[sending.hash].sender = sending.wallet)

\* How often the flow had its transaction executed by the ledger.
Executions(flow) ==
    Cardinality({i \in 1..Len(flow.trace) :
                    flow.trace[i].op \in {"publish", "claim"}})

\* C25: an availability error (the backend cannot be reached, the broadcast
\* or the confirmation times out) is retried with backoff, so that it does
\* not end the send flow at the first failed attempt, while a state conflict
\* reported by the ledger is never retried: the flow ends with its
\* transaction executed once.
C25_AvailabilityRetriedConflictsNot ==
    /\ (sending.pc = "error" /\ sending.cause = "reverted") =>
           Executions(sending) = 1
    /\ ~(sending.pc = "error" /\ sending.cause = "unavailable")

\* The half of C25 that holds: a revert ends the flow, which had its
\* transaction executed once and does not execute it again.
ConflictsNotRetried ==
    [][(sending.pc = "error" /\ sending.cause = "reverted") =>
          /\ Executions(sending) = 1
          /\ (sending'.wallet = sending.wallet /\ sending'.hash = sending.hash)
                => sending' = sending]_vars

----------------------------------------------------------------------------
(* The Index.                                                              *)

\* The step is a claim-transaction request for h that the backend answered
\* (a request answered like the one before it changes nothing).
Answered(h) ==
    /\ response' # response
    /\ response'.op = "claim-transaction"
    /\ response'.hash = h

\* C26: markClaimed for a pending record by a claimer other than the
\* record's recipient fails with WrongClaimer (HTTP 403) and leaves the
\* record pending; for an identifier without record it fails with NotFound
\* and records nothing.
C26_WrongClaimerAndNotFound ==
    [][\A h \in Hashes : Answered(h) =>
          /\ (index[h].status = "pending"
                 /\ response'.claimer # index[h].recipient) =>
                /\ response'.err = "WrongClaimer"
                /\ response'.status = 403
                /\ index'[h] = index[h]
                /\ index' = index
          /\ index[h].status = "none" =>
                /\ response'.err = "NotFound"
                /\ index' = index]_vars

C26_Witness ==
    \E h \in Hashes :
        /\ response.hash = h
        /\ response.err = "WrongClaimer"
        /\ index[h].status = "pending"
        /\ response.claimer # index[h].recipient

\* C27: reporting the same claim (identifier and claimer) again, whatever
\* other requests were answered in between, succeeds and leaves the Index as
\* the first report left it.
C27_MarkClaimedIdempotent ==
    /\ [](\A h \in Hashes, c \in {ALICE, BOB, EVIL} :
             LET once == markClaimed(index, h, c)
                 again == markClaimed(once.index, h, c)
             IN  /\ again.index = once.index
                 /\ once.err = "ok" => again.err = "ok")
    /\ [][\A h \in Hashes :
            (/\ Answered(h)
             /\ index[h].status = "claimed"
             /\ index[h].recipient = response'.claimer) =>
                /\ response'.err = "ok"
                /\ index' = index]_vars

C27_Witness ==
    /\ response.err = "ok"
    /\ response.found = "claimed"
    /\ index[response.hash].status = "claimed"
    /\ index[response.hash].recipient = response.claimer

\* The moves of an Index record's status the data model allows: created as
\* pending, then claimed or cancelled, then nothing.
StatusMoves ==
    {<<"none", "pending">>, <<"pending", "claimed">>,
     <<"pending", "cancelled">>}

\* The Index status of h agrees with the event the ledger emitted for h.
MatchesLedgerEvent(h) ==
    /\ ClaimedByRecipient(h) => index[h].status = "claimed"
    /\ Emitted("TransferCancelled", h) # {} => index[h].status = "cancelled"

\* The half of C28 that holds: a status, once claimed, stays.
StatusMonotonic ==
    [][\A h \in Hashes :
          index'[h].status # index[h].status =>
             <<index[h].status, index'[h].status>> \in StatusMoves]_vars

\* C28: the status of an Index record moves only pending -> claimed or
\* pending -> cancelled and then never again, and once the ledger's events
\* are processed it is the one of the ledger event that occurred for the
\* identifier: claimed after the recipient's claim, cancelled after a
\* cancel.
C28_StatusFollowsLedgerEvent ==
    [][\A h \in Hashes :
          /\ index'[h].status # index[h].status =>
                <<index[h].status, index'[h].status>> \in StatusMoves
          /\ (Drained /\ Indexed(h))' => MatchesLedgerEvent(h)']_vars

----------------------------------------------------------------------------
(* TokenWrapper.                                                           *)

\* C30: getAllSupportedTokens returns exactly the supported symbols: after
\* any sequence of addSupportedToken and removeSupportedToken calls a symbol
\* is in the list if and only if isTokenSupported(symbol), and no symbol is
\* in the list twice.
C30_ListIsSupportedSet ==
    LET list == getAllSupportedTokens
    IN  /\ \A s \in Symbols :
              (\E i \in 1..Len(list) : list[i] = s) <=> isTokenSupported(s)
        /\ \A i, j \in 1..Len(list) : list[i] = list[j] => i = j

----------------------------------------------------------------------------
(* Custody and the counters of the ledger.                                 *)

RECURSIVE SumOf(_, _)
SumOf(f, S) ==
    IF S = {} THEN 0
    ELSE LET x == CHOOSE y \in S : TRUE
         IN  f[x] + SumOf(f, S \ {x})

\* The identifiers whose record holds this token and is not claimed.
Unclaimed(token) ==
    {h \in Hashes : Escrowed(h) /\ hiddenTransfers[h].token = token}

\* The sum of the recorded amounts of the unclaimed records of a token.
Owed(token) ==
    SumOf([h \in Hashes |-> hiddenTransfers[h].amount], Unclaimed(token))

\* C32: custody solvency: for every token, after any sequence of publish,
\* claim, cancel, fee-rate and fee-collector updates with a token that moves
\* exactly the requested amount, the contract's balance of the token is at
\* least the sum of the recorded amounts of its unclaimed records.
C32_CustodySolvent ==
    \A t \in Tokens : balanceOf[t][THIS] >= Owed(t)

\* Two transfers are in escrow, one of them published after a fee was
\* taken, and the contract holds exactly what it owes.
C32_Witness ==
    /\ \E h1, h2 \in Hashes :
          /\ h1 # h2 /\ Escrowed(h1) /\ Escrowed(h2)
          /\ hiddenTransfers[h1].amount # 300
    /\ balanceOf[TOKEN][THIS] = Owed(TOKEN)
    /\ Owed(TOKEN) > 0

\* getStats(): (total, claimed, pending); the subtraction is checked.
getStats ==
    IF totalClaimed > totalTransfers
    THEN [ok |-> FALSE, total |-> totalTransfers, claimed |-> totalClaimed,
          pending |-> 0]
    ELSE [ok |-> TRUE, total |-> totalTransfers, claimed |-> totalClaimed,
          pending |-> totalTransfers - totalClaimed]

\* C33: in every reachable state the pending value returned by getStats
\* equals the number of escrow records whose claimed flag is false, after
\* any sequence of publish, claim and cancel.
C33_PendingIsEscrowedCount ==
    getStats.pending = Cardinality({h \in Hashes : Escrowed(h)})

\* C34: in every reachable state totalTransfers equals the number of
\* identifiers that have an escrow record and totalClaimed <= totalTransfers,
\* so getStats never fails on the subtraction.
C34_CountersMatchRecords ==
    stack = <<>> =>
        /\ totalTransfers = Cardinality({h \in Hashes : Exists(h)})
        /\ totalClaimed <= totalTransfers
        /\ getStats.ok

\* The positions of list that hold h.
PositionsOf(list, h) == {i \in 1..Len(list) : list[i] = h}

\* a claimed h and the call returned: its TransferClaimed event is logged.
ClaimedBy(a, h) ==
    \E i \in Emitted("TransferClaimed", h) : events[i].recipient = a

\* C35: between transactions, userSentTransfers[a] lists exactly the
\* identifiers whose record has sender = a, each once and in publish order,
\* and userReceivedTransfers[a] lists exactly the identifiers that a
\* successfully claimed, each once; an identifier settled by cancel is in no
\* received list, and every identifier in a received list has claimed = true.
C35_ListsMatchRecords ==
    stack = <<>> =>
        \A a \in Addresses, h \in Hashes :
            LET sent == userSentTransfers[a]
                received == userReceivedTransfers[a]
            IN  /\ Cardinality(PositionsOf(sent, h)) =
                      (IF Exists(h) /\ hiddenTransfers[h].sender = a
                       THEN 1 ELSE 0)
                /\ \A i, j \in 1..Len(sent) :
                      i < j => hiddenTransfers[sent[i]].timestamp
                                 <= hiddenTransfers[sent[j]].timestamp
                /\ Cardinality(PositionsOf(received, h)) =
                      (IF ClaimedBy(a, h) THEN 1 ELSE 0)
                /\ PositionsOf(received, h) # {} =>
                      /\ hiddenTransfers[h].claimed
                      /\ Emitted("TransferCancelled", h) = {}

----------------------------------------------------------------------------
(* The send flow and the pending list of the recipient.                    *)

\* loadPendingTransactions: the identifiers the backend lists as pending
\* for an address.
getPendingTransfers(address) ==
    {h \in Hashes : index[h].status = "pending" /\ index[h].recipient = address}

\* The run of the send flow has ended, in its last line or in its catch.
SendFinished == sending.pc \in {"done", "error"}

----------------------------------------------------------------------------
(* InvisibleTransferHook.                                                  *)

\* This step is a call of beforeSwap that returned or reverted.
BeforeSwapStep == now' = now /\ lastCall'.fn = "beforeSwap"

\* C31: beforeSwap creates a unique id for each invisible swap, so that the
\* metadata stored for one swap is never overwritten by another; a swap
\* with empty hookData, isInvisible false or a zero hash stores nothing,
\* and beforeSwap always returns its selector.
C31_SwapIdsUnique ==
    [][BeforeSwapStep =>
          /\ lastResult' = "beforeSwap.selector"
          /\ IF isInvisibleSwap(lastCall'.hookData)
             THEN /\ Len(hookEvents') = Len(hookEvents) + 1
                  /\ hookEvents'[Len(hookEvents')].swapId
                        \notin DOMAIN swapMetadata
                  /\ \A id \in DOMAIN swapMetadata :
                        swapMetadata'[id] = swapMetadata[id]
             ELSE UNCHANGED hook]_vars

----------------------------------------------------------------------------
(* WalletManager.                                                          *)

\* provider, signer and userAddress are all set.
WalletSet == provider # NULL /\ signer # NULL /\ userAddress # NULL

\* None of provider, signer and userAddress is set.
WalletCleared == provider = NULL /\ signer = NULL /\ userAddress = NULL

\* C37: in every reachable state of WalletManager, across any interleaving
\* of connect, disconnect and account-change callbacks, isConnected = true
\* implies that provider, signer and userAddress are all non-null; after
\* disconnect, provider, signer and userAddress are null and isConnected is
\* false.
C37_ConnectedImpliesWalletSet ==
    [][/\ isConnected' => WalletSet'
       /\ accountsChanged(<<>>) => (WalletCleared /\ ~isConnected)']_vars

\* Run r of connect returns in this step.
ConnectReturns(r) ==
    connecting[r].pc # "returned" /\ connecting'[r].pc = "returned"

\* C38: for every call of connect from any state, connect returns true if
\* and only if isConnected is true when it returns; when it returns false
\* the manager is left with isConnected = false and no provider, signer or
\* userAddress set.
C38_ConnectResultMatchesState ==
    [][\A r \in Runs :
          ConnectReturns(r) =>
             /\ connecting'[r].value <=> isConnected'
             /\ ~connecting'[r].value => WalletCleared']_vars

\* checkAndApproveToken returns or throws in this step (a transaction the
\* user refuses to sign is not its doing).
CheckAndApproveEnds ==
    /\ sending.pc = "approve"
    /\ sending'.pc \in {"publish", "error"}
    /\ sending'.cause # "rejected"

\* C39: checkAndApproveToken submits an approve transaction if and only if
\* the current allowance is below the requested amount; it throws without
\* any token call when the wallet is not connected; and whenever it returns
\* true the allowance of the spender is at least the requested amount.
C39_ApprovesIffAllowanceShort ==
    [][CheckAndApproveEnds =>
          LET t == getTokenAddress(sending.token)
              a == amountInWei(sending)
              w == sending.wallet
              approved == sending'.approval = "approved"
          IN  /\ ~isConnected =>
                    /\ sending'.pc = "error"
                    /\ allowance' = allowance
                    /\ ~approved
              /\ (isConnected /\ WalletSet) =>
                    /\ sending'.pc = "publish"
                    /\ approved <=> allowance[t][w] < a
                    /\ approved => allowance'[t][w] = a
                    /\ ~approved => allowance' = allowance
              /\ sending'.pc = "publish" => allowance'[t][w] >= a]_vars

\* A run whose allowance was too low has approved the amount and its
\* publish was executed.
C39_Witness ==
    /\ sending.approval = "approved"
    /\ sending.pc = "done"
    /\ Escrowed(sending.hash)

----------------------------------------------------------------------------
(* TokenWrapper: wrapping and unwrapping.                                  *)

\* C40: for every user and supported token, the total amount the user has
\* withdrawn through unwrapTokens never exceeds the total amount that user
\* has deposited through wrapTokens, after any sequence of wrap and unwrap
\* calls by any users.
C40_WithdrawnAtMostDeposited ==
    \A a \in Addresses, s \in Symbols : withdrawn[a][s] <= deposited[a][s]

====
